---- MODULE Spec2Model ----
(***************************************************************************)
(* A model of the equation compiler and the per-product views of lgcpy.    *)
(*                                                                         *)
(* Part 1: equation ASTs, the pretty-printer (equationutils.py) and the    *)
(*         equation parser.                                                *)
(* Part 2: CounterView / IndexedView / HardwareView / SemanticView.        *)
(*                                                                         *)
(* Strings of the equation language are modelled as sequences of lexical   *)
(* tokens: the Python string "(A + B) * C" is                              *)
(* <<"(", "A", "+", "B", ")", "*", "C">>.                                  *)
(***************************************************************************)
EXTENDS Integers, Sequences, FiniteSets, Bags, TLC

\* ------------------------------------------------------------------------
\* Bounds of the model
\* ------------------------------------------------------------------------

\* Largest number of operator / function nodes of an input equation tree.
MaxOps == 2

\* Largest integer literal whose token is recognised as a number.
MaxLiteral == 40

\* ------------------------------------------------------------------------
\* Part 1a: equation trees (the Lark parse tree)
\* ------------------------------------------------------------------------

\* Tree('name', [Token(NAME, n)])
NameT(n) == [k |-> "name", v |-> n]

\* Token(NUMBER, n)
NumT(n) == [k |-> "num", v |-> n]

\* Tree('add' | 'mul', [a, Token(op), b])
BinT(rule, op, a, b) == [k |-> rule, op |-> op, a |-> a, b |-> b]

\* Tree('min' | 'max', [args...]) or Tree('function', [fname, args...])
FnT(f, args) == [k |-> "fn", f |-> f, args |-> args]

\* Tree('name', [Tree('start', [t])]): a NAME token replaced by the resolved
\* tree of the derived counter it names.
RefT(t) == [k |-> "ref", t |-> t]

\* Tree('name', [None]): a NAME token replaced by the (absent) tree of a
\* derived counter whose equation failed to parse.
NoneT == [k |-> "refnone"]

AddOps == {"+", "-"}
MulOps == {"*", "/"}
RuleOf(op) == IF op \in AddOps THEN "add" ELSE "mul"

\* ------------------------------------------------------------------------
\* Part 1b: numbers
\* ------------------------------------------------------------------------

FloatClassStr == "<class 'float'>"

IntTokens == {ToString(n) : n \in 0..MaxLiteral}

\* is_number on a single token: float(str(value)) succeeds.
IsNumberToken(tok) == tok = "0.5" \/ tok \in IntTokens

\* float(tok), as the rational [num, den].
FloatOf(tok) ==
    IF tok = "0.5" THEN [num |-> 1, den |-> 2]
    ELSE [num |-> CHOOSE n \in 0..MaxLiteral : ToString(n) = tok, den |-> 1]

IsNumber(s) == Len(s) = 1 /\ IsNumberToken(s[1])

\* to_literal: the integer string when the value is an integer, and otherwise
\* str(float), the string form of the type object.
ToLiteral(num, den) ==
    IF num % den = 0 THEN ToString(num \div den) ELSE FloatClassStr

\* ------------------------------------------------------------------------
\* Part 1c: the values the pretty-print transformer builds
\* ------------------------------------------------------------------------

\* What an OperatorNode keeps of an operand: the operand itself when no
\* parentheses were added, a plain string otherwise.
NoOperand ==
    [kind |-> "none", string |-> <<>>, operator |-> "", precedence |-> -1]

Summary(v) ==
    [kind |-> v.kind, string |-> v.string,
     operator |-> v.operator, precedence |-> v.precedence]

StrValue(s) ==
    [kind |-> "str", string |-> s, operator |-> "", precedence |-> -1,
     op_a |-> NoOperand, op_b |-> NoOperand]

NoneValue ==
    [kind |-> "None", string |-> <<"None">>, operator |-> "",
     precedence |-> -1, op_a |-> NoOperand, op_b |-> NoOperand]

RaiseValue(what) ==
    [kind |-> "raise", string |-> <<what>>, operator |-> "",
     precedence |-> -1, op_a |-> NoOperand, op_b |-> NoOperand]

\* A needs_parens that compares the precedence classes only.
NeedsParensPrecedenceOnly(operator, precedence, operand) ==
    precedence # operand.precedence

\* OperatorNode.needs_parens
NeedsParens(operator, precedence, operand) ==
    (operator # operand.operator) \/ (precedence # operand.precedence)

\* OperatorNode.add_parens
AddParens(operator, precedence, operand) ==
    IF operand.kind # "op" THEN Summary(operand)
    ELSE IF NeedsParens(operator, precedence, operand)
         THEN Summary(StrValue(<<"(">> \o operand.string \o <<")">>))
         ELSE Summary(operand)

\* OperatorNode.__init__
OperatorNode(op_a, operator, op_b, precedence) ==
    LET a == AddParens(operator, precedence, op_a)
        b == AddParens(operator, precedence, op_b)
    IN  [kind |-> "op", operator |-> operator, precedence |-> precedence,
         op_a |-> a, op_b |-> b,
         string |-> a.string \o <<operator>> \o b.string]

RECURSIVE JoinComma(_)
JoinComma(strs) ==
    IF Len(strs) = 0 THEN <<>>
    ELSE IF Len(strs) = 1 THEN strs[1]
    ELSE strs[1] \o <<",">> \o JoinComma(Tail(strs))

\* FunctionNode.__init__
FunctionNode(function, params) ==
    [kind |-> "fn",
     string |-> <<function, "(">>
                \o JoinComma([i \in 1..Len(params) |-> params[i].string])
                \o <<")">>,
     operator |-> "", precedence |-> -1,
     op_a |-> NoOperand, op_b |-> NoOperand]

\* operand == '1' (only a str compares equal to a str)
EqualsOne(operand) == operand.kind = "str" /\ operand.string = <<"1">>

\* EquationPrettyPrintTransformer._simplify_mul_str_str
SimplifyMulStrStr(operand_a, operator, operand_b) ==
    IF operand_a.kind # "str" \/ operand_b.kind # "str" THEN NoneValue
    ELSE IF ~IsNumber(operand_a.string) \/ ~IsNumber(operand_b.string)
    THEN NoneValue
    ELSE LET num_a == FloatOf(operand_a.string[1])
             num_b == FloatOf(operand_b.string[1])
         IN  IF operator = "*"
             THEN StrValue(<<ToLiteral(num_a.num * num_b.num,
                                       num_a.den * num_b.den)>>)
             ELSE IF num_b.num = 0
             THEN RaiseValue("ZeroDivisionError")
             ELSE StrValue(<<ToLiteral(num_a.num * num_b.den,
                                       num_a.den * num_b.num)>>)

\* EquationPrettyPrintTransformer._simplify_mul_op_str
SimplifyMulOpStr(operand_a, operator, operand_b) ==
    IF operand_a.kind # "op" \/ operand_b.kind # "str" THEN NoneValue
    ELSE IF ~IsNumber(operand_a.op_b.string) \/ ~IsNumber(operand_b.string)
    THEN NoneValue
    ELSE LET num_a == FloatOf(operand_a.op_b.string[1])
             num_b == FloatOf(operand_b.string[1])
         IN  IF operand_a.operator = "*" /\ operator = "*"
             THEN OperatorNode(
                    operand_a.op_a, "*",
                    StrValue(<<ToLiteral(num_a.num * num_b.num,
                                         num_a.den * num_b.den)>>),
                    1)
             ELSE NoneValue

\* EquationPrettyPrintTransformer.add
Add(operand_a, operator, operand_b) ==
    OperatorNode(operand_a, operator, operand_b, 0)

\* A mul that hides a leading 1 whatever the operator: 1 / y becomes y.
MulOneAnyOperator(operand_a, operator, operand_b) ==
    IF EqualsOne(operand_b) THEN operand_a
    ELSE IF EqualsOne(operand_a) THEN operand_b
    ELSE IF SimplifyMulStrStr(operand_a, operator, operand_b).kind # "None"
    THEN SimplifyMulStrStr(operand_a, operator, operand_b)
    ELSE IF SimplifyMulOpStr(operand_a, operator, operand_b).kind # "None"
    THEN SimplifyMulOpStr(operand_a, operator, operand_b)
    ELSE OperatorNode(operand_a, operator, operand_b, 1)

\* EquationPrettyPrintTransformer.mul
Mul(operand_a, operator, operand_b) ==
    IF EqualsOne(operand_b) THEN operand_a
    ELSE IF operator = "*" /\ EqualsOne(operand_a) THEN operand_b
    ELSE LET v1 == SimplifyMulStrStr(operand_a, operator, operand_b)
             v2 == SimplifyMulOpStr(operand_a, operator, operand_b)
         IN  IF v1.kind # "None" THEN v1
             ELSE IF v2.kind # "None" THEN v2
             ELSE OperatorNode(operand_a, operator, operand_b, 1)

\* EquationPrettyPrintTransformer.name
Name(args) ==
    IF args.kind = "op" THEN args ELSE StrValue(args.string)

\* EquationPrettyPrintTransformer.start
Start(nodes) == nodes[1]

\* Transformer.transform of EquationPrettyPrintTransformer: bottom-up, the
\* first exception of a callback ends the traversal.
RECURSIVE PrettyPrint(_)
PrettyPrint(t) ==
    CASE t.k = "name" -> Name(StrValue(<<t.v>>))
      [] t.k = "num" -> StrValue(<<t.v>>)
      [] t.k = "refnone" -> Name(NoneValue)
      [] t.k = "ref" ->
            LET sub == PrettyPrint(t.t)
            IN  IF sub.kind = "raise" THEN sub ELSE Name(Start(<<sub>>))
      [] t.k \in {"add", "mul"} ->
            LET a == PrettyPrint(t.a)
                b == PrettyPrint(t.b)
            IN  IF a.kind = "raise" THEN a
                ELSE IF b.kind = "raise" THEN b
                ELSE IF t.k = "add" THEN Add(a, t.op, b)
                ELSE Mul(a, t.op, b)
      [] t.k = "fn" ->
            LET ps == [i \in 1..Len(t.args) |-> PrettyPrint(t.args[i])]
                bad == {i \in 1..Len(ps) : ps[i].kind = "raise"}
            IN  IF bad # {}
                THEN ps[CHOOSE i \in bad : \A j \in bad : i <= j]
                ELSE FunctionNode(t.f, ps)

\* equation_ast_to_string
EquationAstToString(ast) == PrettyPrint(ast)

\* ------------------------------------------------------------------------
\* Part 1d: the equation parser (grammar: names, numbers, + - * / with the
\* usual precedence, left associative, parentheses, calls f(a, b, ...))
\* ------------------------------------------------------------------------

LeafNames == {"A"}
LeafLiterals == {"1", "2", "0.5"}
FunctionNames == {"min", "max"}

\* Tokens the lexer accepts as NAME.
Identifiers == LeafNames \cup {"B", "C"} \cup FunctionNames \cup {"None"}

ParseFail == [ok |-> FALSE, tree |-> NoneT, next |-> 0]
ParseOk(t, n) == [ok |-> TRUE, tree |-> t, next |-> n]

RECURSIVE ParseSum(_, _)
RECURSIVE ParseSumRest(_, _, _)
RECURSIVE ParseProduct(_, _)
RECURSIVE ParseProductRest(_, _, _)
RECURSIVE ParseAtom(_, _)
RECURSIVE ParseArgs(_, _, _)

\* args: sum ("," sum)* ")"
ParseArgs(toks, i, acc) ==
    LET r == ParseSum(toks, i)
    IN  IF ~r.ok \/ r.next > Len(toks) THEN [ok |-> FALSE, args |-> <<>>, next |-> 0]
        ELSE IF toks[r.next] = ","
             THEN ParseArgs(toks, r.next + 1, Append(acc, r.tree))
        ELSE IF toks[r.next] = ")"
             THEN [ok |-> TRUE, args |-> Append(acc, r.tree), next |-> r.next + 1]
        ELSE [ok |-> FALSE, args |-> <<>>, next |-> 0]

\* atom: NUMBER | NAME | NAME "(" args | "(" sum ")"
ParseAtom(toks, i) ==
    IF i > Len(toks) THEN ParseFail
    ELSE IF IsNumberToken(toks[i]) THEN ParseOk(NumT(toks[i]), i + 1)
    ELSE IF toks[i] \in Identifiers
    THEN IF i + 1 <= Len(toks) /\ toks[i + 1] = "("
         THEN LET r == ParseArgs(toks, i + 2, <<>>)
              IN  IF r.ok THEN ParseOk(FnT(toks[i], r.args), r.next)
                  ELSE ParseFail
         ELSE ParseOk(NameT(toks[i]), i + 1)
    ELSE IF toks[i] = "("
    THEN LET r == ParseSum(toks, i + 1)
         IN  IF r.ok /\ r.next <= Len(toks) /\ toks[r.next] = ")"
             THEN ParseOk(r.tree, r.next + 1)
             ELSE ParseFail
    ELSE ParseFail

ParseProductRest(toks, left, i) ==
    IF i <= Len(toks) /\ toks[i] \in MulOps
    THEN LET r == ParseAtom(toks, i + 1)
         IN  IF r.ok
             THEN ParseProductRest(toks, BinT("mul", toks[i], left, r.tree),
                                   r.next)
             ELSE ParseFail
    ELSE ParseOk(left, i)

ParseProduct(toks, i) ==
    LET r == ParseAtom(toks, i)
    IN  IF r.ok THEN ParseProductRest(toks, r.tree, r.next) ELSE ParseFail

ParseSumRest(toks, left, i) ==
    IF i <= Len(toks) /\ toks[i] \in AddOps
    THEN LET r == ParseProduct(toks, i + 1)
         IN  IF r.ok
             THEN ParseSumRest(toks, BinT("add", toks[i], left, r.tree),
                               r.next)
             ELSE ParseFail
    ELSE ParseOk(left, i)

ParseSum(toks, i) ==
    LET r == ParseProduct(toks, i)
    IN  IF r.ok THEN ParseSumRest(toks, r.tree, r.next) ELSE ParseFail

\* equation_string_to_ast: (tree, None) or (None, error message)
EquationStringToAst(string) ==
    LET r == ParseSum(string, 1)
    IN  IF r.ok /\ r.next = Len(string) + 1
        THEN [ast |-> r.tree, error |-> "None"]
        ELSE [ast |-> NoneT, error |-> "LarkError"]

\* ------------------------------------------------------------------------
\* Part 1e: the input trees of the pretty-printer
\* ------------------------------------------------------------------------

Leaves == {NameT(n) : n \in LeafNames} \cup {NumT(l) : l \in LeafLiterals}

NodeKinds == AddOps \cup MulOps \cup {"min"}

MkNode(kind, a, b) ==
    IF kind \in AddOps \cup MulOps THEN BinT(RuleOf(kind), kind, a, b)
    ELSE FnT(kind, <<a, b>>)

\* The trees with exactly n operator / function nodes, n < MaxOps (the
\* operands of the root of an input tree).
TreesOfSize[n \in 0..(MaxOps - 1)] ==
    IF n = 0 THEN Leaves
    ELSE UNION {
           {MkNode(kind, a, b) :
              kind \in NodeKinds, a \in TreesOfSize[i],
              b \in TreesOfSize[n - 1 - i]} : i \in 0..(n - 1)}

\* The trees of the specification's own examples.
ExampleTrees ==
    { BinT("mul", "*", BinT("add", "+", NameT("A"), NameT("B")), NameT("C")),
      BinT("add", "+", NameT("A"), BinT("mul", "*", NameT("B"), NameT("C"))),
      BinT("mul", "*", NumT("2"), NumT("3")),
      BinT("mul", "*", NumT("0.5"), NumT("3")),
      BinT("mul", "/", NumT("2"), NumT("0")) }

IsLeaf(t) == t.k \in {"name", "num"}

\* The same tree as the resolver produces it when every nested operand is the
\* equation of a derived counter referenced by name.
RECURSIVE Substituted(_)
SubstOperand(t) == IF IsLeaf(t) THEN t ELSE RefT(Substituted(t))
Substituted(t) ==
    IF IsLeaf(t) THEN t
    ELSE IF t.k = "fn"
    THEN FnT(t.f, [i \in 1..Len(t.args) |-> SubstOperand(t.args[i])])
    ELSE BinT(t.k, t.op, SubstOperand(t.a), SubstOperand(t.b))

\* The tree with the reference wrappers removed.
RECURSIVE Unref(_)
Unref(t) ==
    IF IsLeaf(t) \/ t.k = "refnone" THEN t
    ELSE IF t.k = "ref" THEN Unref(t.t)
    ELSE IF t.k = "fn"
    THEN FnT(t.f, [i \in 1..Len(t.args) |-> Unref(t.args[i])])
    ELSE BinT(t.k, t.op, Unref(t.a), Unref(t.b))


\* ------------------------------------------------------------------------
\* Part 2a: products, the hardware layout and the counter database
\* ------------------------------------------------------------------------

\* Largest number of CounterInfo entries in a counter database.
MaxDb == 4

\* Python None, for a string and for an object reference.
None == "None"
NoRef == 0

\* An absent equation AST (CounterInfo.equation_ast is None).
NoEquation == [k |-> "None"]

\* CounterVisibility values.
NOVICE == 1
ADVANCED_APPLICATION == 2
ADVANCED_SYSTEM == 3
INTERNAL == 4
CounterVisibility == NOVICE..INTERNAL

\* ProductInfo: the fields the views read.
ProductInfo(key, features) == [database_key |-> key, features |-> features]
has_feature(p, feature) == feature \in p.features

Products ==
    { ProductInfo("g1", {"async_clock"}), ProductInfo("g1", {}) }

\* str.lower() on the names that occur in the model.
LowerPairs ==
    { <<"MaliA", "malia">>, <<"MaliB", "malib">>, <<"MaliC", "malic">>,
      <<"MaliD", "malid">>, <<"MaliE", "malie">>, <<"MaliF", "malif">>,
      <<"MaliG", "malig">>, <<"MaliH", "malih">>, <<"MaliI", "malii">>,
      <<"MaliJ", "malij">>, <<"MaliK", "malik">>, <<"MaliU", "maliu">>,
      <<"MaliZ", "maliz">>, <<"MALI_X", "mali_x">>,
      <<"MALI_CONFIG_SHADER_CORE_COUNT", "mali_config_shader_core_count">>,
      <<"hwA", "hwa">>, <<"hwB", "hwb">>, <<"hwB_old", "hwb_old">>,
      <<"hwC", "hwc">>, <<"hwD", "hwd">>,
      <<"G1", "g1">>, <<"G2", "g2">>, <<"G3", "g3">>,
      <<"Name A", "name a">>, <<"Name B", "name b">>, <<"Name C", "name c">>,
      <<"Name D", "name d">>, <<"Name E", "name e">>, <<"Name F", "name f">>,
      <<"Name G", "name g">>, <<"Name H", "name h">>, <<"Name I", "name i">>,
      <<"Name J", "name j">>, <<"Name K", "name k">>, <<"Name U", "name u">>,
      <<"Name X", "name x">>,
      <<"MaliT", "malit">>, <<"MaliN", "malin">>, <<"MaliQ", "maliq">>,
      <<"MaliR", "malir">>, <<"MaliFragOverdraw", "malifragoverdraw">>,
      <<"hwT", "hwt">>, <<"Name T", "name t">>, <<"Name N", "name n">>,
      <<"Name Q", "name q">>, <<"Name R", "name r">>,
      <<"MALI_CONFIG_L2_CACHE_COUNT", "mali_config_l2_cache_count">>,
      <<"MALI_CONFIG_TIME_SPAN", "mali_config_time_span">>,
      <<"MALI_CONFIG_UNKNOWN", "mali_config_unknown">> }

LowerMap ==
    [s \in {p[1] : p \in LowerPairs} |->
        (CHOOSE p \in LowerPairs : p[1] = s)[2]]

Lower(s) == IF s \in DOMAIN LowerMap THEN LowerMap[s] ELSE s

\* CONSTANT_PATTERN = ^[A-Z0-9_]+$ on the names that occur in the model.
MatchesConstantPattern(s) ==
    s \in {"MALI_CONFIG_SHADER_CORE_COUNT", "MALI_X",
           "MALI_CONFIG_L2_CACHE_COUNT", "MALI_CONFIG_TIME_SPAN",
           "MALI_CONFIG_UNKNOWN"}

\* The hardware layout: blocks in layout order, each with its counter slots.
HardwareLayout ==
    << [btype |-> "SHADER_CORE", bank |-> 0,
        counters |-> << [name |-> "hwA", index |-> 0, shift |-> 0],
                        [name |-> "hwB", index |-> 1, shift |-> 1] >>],
       [btype |-> "MEMORY_SYSTEM", bank |-> 0,
        counters |-> << [name |-> "hwC", index |-> 0, shift |-> 2] >>],
       [btype |-> "MEMORY_SYSTEM", bank |-> 1,
        counters |-> << [name |-> "hwC", index |-> 0, shift |-> 2] >>] >>

\* HardwareLayout.get_counter_by_name: the first block and slot of that name.
get_counter_by_name(hw_db, name) ==
    LET hits == { bc \in (1..Len(hw_db)) \X (1..2) :
                    /\ bc[2] <= Len(hw_db[bc[1]].counters)
                    /\ hw_db[bc[1]].counters[bc[2]].name = name }
    IN  IF hits = {} THEN [found |-> FALSE]
        ELSE LET b == CHOOSE x \in {h[1] : h \in hits} :
                         \A y \in {h[1] : h \in hits} : x <= y
                 c == CHOOSE x \in {h[2] : h \in {g \in hits : g[1] = b}} :
                         \A y \in {h[2] : h \in {g \in hits : g[1] = b}} :
                            x <= y
             IN  [found |-> TRUE, hw_bl |-> hw_db[b],
                  hw_cl |-> hw_db[b].counters[c]]

\* CounterInfo: the fields the views read.  source_name is None for a derived
\* counter; equation_ast is NoEquation for a hardware counter and for a
\* derived counter whose equation text did not parse.
CounterInfo(machine_name, stable_id, source_name, aliases, group_name, group_human_name, human_name, visibility, equation_ast, gpus) ==
    [ machine_name |-> machine_name, stable_id |-> stable_id,
      source_name |-> source_name, source_name_aliases |-> aliases,
      group_name |-> group_name, group_human_name |-> group_human_name,
      human_name |-> human_name, visibility |-> visibility,
      equation_ast |-> equation_ast, gpu_support |-> gpus ]

supports_gpu(ci, gpu) == gpu \in ci.gpu_support

\* The counter definitions a database is drawn from, in file order.
CounterPool ==
    << CounterInfo("MaliA", 1, "hwA", <<"hwA">>, "G1", "a", "Name A",
                   NOVICE, NoEquation, {"g1", "g2"}),
       CounterInfo("MaliB", 2, "hwB_old", <<"hwB", "hwB_old">>, "G1", "b",
                   "Name B", ADVANCED_SYSTEM, NoEquation, {"g1"}),
       CounterInfo("MaliC", 3, "hwC", <<"hwC", "hwA">>, "G2", "c", "Name C",
                   INTERNAL, NoEquation, {"g1"}),
       CounterInfo("MaliD", 4, None, <<>>, "G2", "d", "Name D", NOVICE,
                   BinT("add", "+", NameT("MaliA"), NameT("MaliB")),
                   {"g1"}),
       CounterInfo("MaliE", 5, None, <<>>, "G3", "e", "Name E",
                   ADVANCED_APPLICATION,
                   BinT("mul", "/", NameT("malid"),
                        NameT("MALI_CONFIG_SHADER_CORE_COUNT")),
                   {"g1"}),
       CounterInfo("MaliF", 6, None, <<>>, "G3", "f", "Name F", NOVICE,
                   BinT("add", "+", NameT("MaliZ"), NameT("MaliA")),
                   {"g1"}),
       CounterInfo("MaliG", 7, None, <<>>, "G3", "g", "Name G", NOVICE,
                   NoEquation, {"g1"}),
       CounterInfo("MaliH", 8, None, <<>>, "G3", "h", "Name H",
                   ADVANCED_APPLICATION,
                   BinT("mul", "*", NameT("MaliG"), NumT("2")), {"g1"}),
       CounterInfo("MaliI", 1, "hwD", <<"hwD">>, "G2", "i", "Name I",
                   ADVANCED_SYSTEM, NoEquation, {"g1"}),
       CounterInfo("MaliU", 10, "hwA", <<"hwA">>, "G1", "u", "Name U",
                   NOVICE, NoEquation, {"g2"}),
       CounterInfo("MALI_X", 11, None, <<>>, "G2", "x", "Name X",
                   ADVANCED_APPLICATION,
                   BinT("mul", "*", NameT("MaliA"), NumT("2")), {"g1"}),
       CounterInfo("MaliJ", 12, None, <<>>, "G2", "j", "Name J", NOVICE,
                   BinT("add", "+", NameT("MALI_X"), NameT("MaliA")),
                   {"g1"}),
       CounterInfo("MaliK", 13, None, <<>>, "G1", "k", "Name K", NOVICE,
                   BinT("add", "+", NameT("MaliA"), NameT("MaliK")),
                   {"g1"}) >>

\* The elements of seq at the positions in S, in order.
RECURSIVE SubSeqOf(_, _, _)
SubSeqOf(seq, S, i) ==
    IF i > Len(seq) THEN <<>>
    ELSE (IF i \in S THEN <<seq[i]>> ELSE <<>>) \o SubSeqOf(seq, S, i + 1)

\* The counter databases: the pool entries at up to MaxDb positions.
CounterDatabases ==
    { SubSeqOf(CounterPool, S, 1) :
        S \in { T \in SUBSET (1..Len(CounterPool)) : Cardinality(T) <= MaxDb } }

\* ------------------------------------------------------------------------
\* Part 2b: CounterView and IndexedView
\* ------------------------------------------------------------------------

\* A Python dict: the sequence of its (key, value) items in insertion order.
EmptyDict == <<>>

DictKeys(d) == {d[i].key : i \in 1..Len(d)}

DictValues(d) == [i \in 1..Len(d) |-> d[i].val]

\* d.get(key, None)
DictGet(d, key) ==
    IF key \in DictKeys(d)
    THEN d[CHOOSE i \in 1..Len(d) : d[i].key = key].val
    ELSE NoRef

\* d[key] = val: an existing key keeps its position.
DictPut(d, key, val) ==
    IF key \in DictKeys(d)
    THEN [i \in 1..Len(d) |->
            IF d[i].key = key THEN [key |-> key, val |-> val] ELSE d[i]]
    ELSE Append(d, [key |-> key, val |-> val])

\* An Optional[str] that holds a message: None, or the text.
NoMessage == [some |-> FALSE]
Message(text) == [some |-> TRUE, text |-> text]

\* CounterView.__init__.  A CounterView object is identified by the position
\* of its CounterInfo in the database; `objects' maps identities to fields.
CounterView(product, hw_name, hw, ci) ==
    LET block_type == IF hw.found THEN hw.hw_bl.btype ELSE None
    IN  [ block_type |-> block_type,
          block_index |-> IF hw.found THEN hw.hw_cl.index ELSE 0,
          scale_multiplier |->
              IF hw.found THEN 2 ^ hw.hw_cl.shift ELSE 1,
          clock_domain |->
              IF block_type = None THEN None
              ELSE IF ~has_feature(product, "async_clock") THEN "GPU"
              ELSE IF block_type = "SHADER_CORE" THEN "SHADER_CORE"
              ELSE "GPU",
          machine_name |-> ci.machine_name,
          stable_id |-> ci.stable_id,
          human_name |-> ci.human_name,
          group_name |-> ci.group_name,
          group_human_name |-> ci.group_human_name,
          visibility |-> ci.visibility,
          equation_ast |-> ci.equation_ast,
          equation_ast_resolved |-> NoEquation,
          equation_ast_resolved_error |-> NoMessage,
          source_name |-> hw_name ]

\* The slot of `objects' of a CounterInfo that from_db skipped.
NoObject == [machine_name |-> None]

is_derived(cv) == cv.source_name = None

\* An is_visible that excludes the maximum level itself.
is_visible_below(cv, max_visibility) == cv.visibility < max_visibility

is_visible(cv, max_visibility) == cv.visibility <= max_visibility

\* IndexedView.__init__
IndexedView(gpu, key) ==
    [ gpu |-> gpu, key |-> key,
      by_stable_id |-> EmptyDict, by_machine_name |-> EmptyDict,
      by_source_name |-> EmptyDict, by_human_name |-> EmptyDict,
      by_group_names |-> EmptyDict ]

NoView == [gpu |-> None]

IndexNames ==
    { "by_stable_id", "by_machine_name", "by_source_name", "by_human_name",
      "by_group_names" }

GroupIndex(group_name, group_human_name) ==
    <<Lower(group_name), "|", Lower(group_human_name)>>

\* A get_by_group_names that does not lower-case its key.
get_by_group_names_exact(v, group_name, group_human_name) ==
    DictGet(v.by_group_names, <<group_name, "|", group_human_name>>)

get_by_stable_id(v, key) == DictGet(v.by_stable_id, key)
get_by_machine_name(v, key) == DictGet(v.by_machine_name, Lower(key))
get_by_source_name(v, key) == DictGet(v.by_source_name, Lower(key))
get_by_human_name(v, key) == DictGet(v.by_human_name, Lower(key))
get_by_group_names(v, group_name, group_human_name) ==
    DictGet(v.by_group_names, GroupIndex(group_name, group_human_name))

\* The insertions without the one into by_stable_id.
AddIndexesNoStableId(v, ref, cv) ==
    [ v EXCEPT
        !.by_machine_name = DictPut(@, Lower(cv.machine_name), ref),
        !.by_source_name =
            IF cv.source_name # None
            THEN DictPut(@, Lower(cv.source_name), ref) ELSE @,
        !.by_human_name = DictPut(@, Lower(cv.human_name), ref),
        !.by_group_names =
            DictPut(@, GroupIndex(cv.group_name, cv.group_human_name), ref) ]

\* "Add the indexes": the five insertions of from_db and of filter for the
\* counter object ref with fields cv.
AddIndexes(v, ref, cv) ==
    [ v EXCEPT
        !.by_stable_id = DictPut(@, cv.stable_id, ref),
        !.by_machine_name = DictPut(@, Lower(cv.machine_name), ref),
        !.by_source_name =
            IF cv.source_name # None
            THEN DictPut(@, Lower(cv.source_name), ref) ELSE @,
        !.by_human_name = DictPut(@, Lower(cv.human_name), ref),
        !.by_group_names =
            DictPut(@, GroupIndex(cv.group_name, cv.group_human_name), ref) ]

\* An alias search that keeps the last of names that the layout knows.
RECURSIVE FindAliasLast(_, _, _)
FindAliasLast(hw_db, names, i) ==
    IF i > Len(names) THEN [found |-> FALSE]
    ELSE IF FindAliasLast(hw_db, names, i + 1).found
    THEN FindAliasLast(hw_db, names, i + 1)
    ELSE IF get_counter_by_name(hw_db, names[i]).found
    THEN [found |-> TRUE, hw_name |-> names[i],
          hw_bl |-> get_counter_by_name(hw_db, names[i]).hw_bl,
          hw_cl |-> get_counter_by_name(hw_db, names[i]).hw_cl]
    ELSE [found |-> FALSE]

\* The alias search of from_db: the first of names that the layout knows.
RECURSIVE FindAlias(_, _, _)
FindAlias(hw_db, names, i) ==
    IF i > Len(names) THEN [found |-> FALSE]
    ELSE LET hw_data == get_counter_by_name(hw_db, names[i])
         IN  IF hw_data.found
             THEN [found |-> TRUE, hw_name |-> names[i],
                   hw_bl |-> hw_data.hw_bl, hw_cl |-> hw_data.hw_cl]
             ELSE FindAlias(hw_db, names, i + 1)

\* The CounterView from_db builds for one CounterInfo.
ViewOfCounter(product, hw_db, counter) ==
    IF counter.source_name # None
    THEN LET hw == FindAlias(hw_db,
                       <<counter.source_name>> \o counter.source_name_aliases,
                       1)
         IN  CounterView(product,
                         IF hw.found THEN hw.hw_name ELSE counter.source_name,
                         hw, counter)
    ELSE CounterView(product, None, [found |-> FALSE], counter)

\* IndexedView.from_db: the view and the CounterView objects it created,
\* after the loop has handled ct_db[i..].
RECURSIVE FromDbLoop(_, _, _, _, _, _)
FromDbLoop(product, hw_db, ct_db, i, v, objs) ==
    IF i > Len(ct_db) THEN [view |-> v, objects |-> objs]
    ELSE IF ~supports_gpu(ct_db[i], v.key)
    THEN FromDbLoop(product, hw_db, ct_db, i + 1, v, Append(objs, NoObject))
    ELSE LET ct_view == ViewOfCounter(product, hw_db, ct_db[i])
         IN  FromDbLoop(product, hw_db, ct_db, i + 1,
                        AddIndexes(v, i, ct_view), Append(objs, ct_view))

IndexedViewFromDb(gpu, product, hw_db, ct_db) ==
    FromDbLoop(product, hw_db, ct_db, 1,
               IndexedView(gpu, product.database_key), <<>>)

\* The test of the filter loops: the counter is kept.
Passes(cv, max_visibility, derived) ==
    /\ is_visible(cv, max_visibility)
    /\ ~(is_derived(cv) /\ ~derived)

\* IndexedView.filter, after the loop has handled the items i.. of
\* self.by_stable_id: the filtered view, and self.
RECURSIVE FilterLoop(_, _, _, _, _, _)
FilterLoop(self, objs, max_visibility, derived, i, filtered_view) ==
    IF i > Len(self.by_stable_id)
    THEN [filtered_view |-> filtered_view, self |-> self]
    ELSE LET ref == self.by_stable_id[i].val
         IN  FilterLoop(self, objs, max_visibility, derived, i + 1,
                        IF Passes(objs[ref], max_visibility, derived)
                        THEN AddIndexes(filtered_view, ref, objs[ref])
                        ELSE filtered_view)

\* A filter that removes the failing counters from self.
IndexedViewFilterInPlace(self, objs, max_visibility, derived) ==
    LET r == FilterLoop(self, objs, max_visibility, derived, 1,
                        IndexedView(self.gpu, self.key))
    IN  [filtered_view |-> r.filtered_view, self |-> r.filtered_view]

IndexedViewFilter(self, objs, max_visibility, derived) ==
    FilterLoop(self, objs, max_visibility, derived, 1,
               IndexedView(self.gpu, self.key))

\* ------------------------------------------------------------------------
\* Part 2c: equation resolution
\* ------------------------------------------------------------------------

\* Outcomes of a call: a returned value or a raised exception.
Return(value) == [ok |-> TRUE, value |-> value]
Raise(exc, msg) == [ok |-> FALSE, exc |-> exc, msg |-> msg]

\* A token callback that lets the exception of the callback through.
CallUserfuncTokenUnwrapped(r) == r

\* Lark's call of a token callback: an exception raised by the callback is
\* re-raised as a VisitError that carries it.
CallUserfuncToken(r) ==
    IF r.ok THEN r ELSE Raise("VisitError", r.msg)

\* EquationResolveTransformer(index_view).transform(t).  depth is the number
\* of nested transform calls still available: a chain of derived references
\* longer than the number of counters revisits a counter, never ends, and
\* exhausts the interpreter stack.  none_ok tells whether the Lark in use
\* passes a None tree through transform or fails on it.
RECURSIVE Transform(_, _, _, _, _)

\* A NAME that keeps the name of a derived counter as it does the name of a
\* hardware counter.
ResolveNAMEKeepDerived(index_view, objs, args, depth, none_ok) ==
    IF MatchesConstantPattern(args) THEN Return(NameT(args))
    ELSE IF get_by_machine_name(index_view, args) = NoRef
    THEN Raise("AssertionError", <<"Missing counter", args>>)
    ELSE Return(NameT(args))

\* A NAME with a depth guard: when the nesting of derived references reaches
\* the limit, the name is kept as it is and no exception is raised.
ResolveNAMEDepthGuard(index_view, objs, args, depth, none_ok) ==
    IF MatchesConstantPattern(args) THEN Return(NameT(args))
    ELSE IF get_by_machine_name(index_view, args) = NoRef
    THEN Raise("AssertionError", <<"Missing counter", args>>)
    ELSE IF ~is_derived(objs[get_by_machine_name(index_view, args)])
    THEN Return(NameT(args))
    ELSE IF depth = 0 THEN Return(NameT(args))
    ELSE IF objs[get_by_machine_name(index_view, args)].equation_ast
               = NoEquation
    THEN IF none_ok THEN Return(NoneT)
         ELSE Raise("AttributeError", <<"NoneType">>)
    ELSE IF Transform(index_view, objs,
                objs[get_by_machine_name(index_view, args)].equation_ast,
                depth - 1, none_ok).ok
    THEN Return(RefT(Transform(index_view, objs,
                objs[get_by_machine_name(index_view, args)].equation_ast,
                depth - 1, none_ok).value))
    ELSE Transform(index_view, objs,
                objs[get_by_machine_name(index_view, args)].equation_ast,
                depth - 1, none_ok)

\* EquationResolveTransformer.NAME
ResolveNAME(index_view, objs, args, depth, none_ok) ==
    IF MatchesConstantPattern(args) THEN Return(NameT(args))
    ELSE LET counter == get_by_machine_name(index_view, args)
         IN  IF counter = NoRef
             THEN Raise("AssertionError", <<"Missing counter", args>>)
             ELSE IF ~is_derived(objs[counter]) THEN Return(NameT(args))
             ELSE IF depth = 0
             THEN Raise("RecursionError", <<"maximum recursion depth">>)
             ELSE IF objs[counter].equation_ast = NoEquation
             THEN IF none_ok THEN Return(NoneT)
                  ELSE Raise("AttributeError", <<"NoneType">>)
             ELSE LET r == Transform(index_view, objs,
                                     objs[counter].equation_ast,
                                     depth - 1, none_ok)
                  IN  IF r.ok THEN Return(RefT(r.value)) ELSE r

\* The transformed arguments of a function call, left to right.
RECURSIVE TransformArgs(_, _, _, _, _, _, _)
TransformArgs(index_view, objs, args, i, acc, depth, none_ok) ==
    IF i > Len(args) THEN Return(acc)
    ELSE LET r == Transform(index_view, objs, args[i], depth, none_ok)
         IN  IF r.ok
             THEN TransformArgs(index_view, objs, args, i + 1,
                                Append(acc, r.value), depth, none_ok)
             ELSE r

Transform(index_view, objs, t, depth, none_ok) ==
    CASE t.k = "name" ->
           CallUserfuncToken(
               ResolveNAME(index_view, objs, t.v, depth, none_ok))
      [] t.k = "num" -> Return(t)
      [] t.k = "fn" ->
           LET r == TransformArgs(index_view, objs, t.args, 1, <<>>,
                                  depth, none_ok)
           IN  IF r.ok THEN Return(FnT(t.f, r.value)) ELSE r
      [] OTHER ->
           LET ra == Transform(index_view, objs, t.a, depth, none_ok)
           IN  IF ~ra.ok THEN ra
               ELSE LET rb == Transform(index_view, objs, t.b, depth, none_ok)
                    IN  IF ~rb.ok THEN rb
                        ELSE Return(BinT(t.k, t.op, ra.value, rb.value))

\* equation_ast_to_resolved_ast: the (resolved, error) pair, or the exception
\* the except clause does not catch.
equation_ast_to_resolved_ast(ast, index_view, objs, none_ok) ==
    LET r == Transform(index_view, objs, ast, Len(objs), none_ok)
    IN  IF r.ok THEN Return(<<r.value, NoMessage>>)
        ELSE IF r.exc = "VisitError" THEN Return(<<NoEquation, Message(r.msg)>>)
        ELSE r

\* CounterView.resolve_equation: the fields of the counter afterwards.
resolve_equation(cv, index_view, objs, none_ok) ==
    IF cv.equation_ast = NoEquation THEN Return(cv)
    ELSE LET result == equation_ast_to_resolved_ast(cv.equation_ast,
                                                    index_view, objs, none_ok)
         IN  IF ~result.ok THEN result
             ELSE Return([cv EXCEPT
                            !.equation_ast_resolved = result.value[1],
                            !.equation_ast_resolved_error = result.value[2]])

\* IndexedView.resolve_equations, after the loop has handled the items i.. of
\* by_stable_id: the objects, and whether the call returned.
RECURSIVE ResolveLoop(_, _, _, _)
ResolveLoop(index_view, objs, i, none_ok) ==
    IF i > Len(index_view.by_stable_id)
    THEN [returned |-> TRUE, objects |-> objs]
    ELSE LET ref == index_view.by_stable_id[i].val
             r == resolve_equation(objs[ref], index_view, objs, none_ok)
         IN  IF ~r.ok THEN [returned |-> FALSE, objects |-> objs]
             ELSE ResolveLoop(index_view,
                              [objs EXCEPT ![ref] = r.value], i + 1, none_ok)

resolve_equations(index_view, objs, none_ok) ==
    ResolveLoop(index_view, objs, 1, none_ok)

\* ------------------------------------------------------------------------
\* Part 2d: HardwareView and SemanticView
\* ------------------------------------------------------------------------

\* HardwareBlockView.from_db, after the loop has handled the slots i.. of the
\* block: the counters of the block, or the failed assertion.
RECURSIVE HardwareBlockLoop(_, _, _, _)
HardwareBlockLoop(hw_bl, i_view, i, acc) ==
    IF i > Len(hw_bl.counters)
    THEN Return([btype |-> hw_bl.btype, counters |-> acc])
    ELSE LET child_view == get_by_source_name(i_view, hw_bl.counters[i].name)
         IN  IF child_view = NoRef
             THEN Raise("AssertionError", hw_bl.counters[i].name)
             ELSE HardwareBlockLoop(hw_bl, i_view, i + 1,
                                    Append(acc, child_view))

HardwareBlockViewFromDb(hw_bl, i_view) ==
    HardwareBlockLoop(hw_bl, i_view, 1, <<>>)

\* HardwareView.from_db, after the loop has handled the blocks i..
RECURSIVE HardwareViewLoop(_, _, _, _)
HardwareViewLoop(hw_db, i_view, i, acc) ==
    IF i > Len(hw_db) THEN Return(acc)
    ELSE IF hw_db[i].bank # 0
    THEN HardwareViewLoop(hw_db, i_view, i + 1, acc)
    ELSE LET child_view == HardwareBlockViewFromDb(hw_db[i], i_view)
         IN  IF ~child_view.ok THEN child_view
             ELSE HardwareViewLoop(hw_db, i_view, i + 1,
                                   Append(acc, child_view.value))

\* A from_db that builds a block for every layout block, whatever its bank.
HardwareViewFromDbAllBanks(hw_db, i_view) ==
    IF \E i \in 1..Len(hw_db) : ~HardwareBlockViewFromDb(hw_db[i], i_view).ok
    THEN Raise("AssertionError", "slot")
    ELSE Return([i \in 1..Len(hw_db) |->
                    HardwareBlockViewFromDb(hw_db[i], i_view).value])

HardwareViewFromDb(hw_db, i_view) == HardwareViewLoop(hw_db, i_view, 1, <<>>)

\* The counters of a block that the filter loop keeps.
RECURSIVE KeepPassing(_, _, _, _, _)
KeepPassing(block, objs, max_visibility, derived, i) ==
    IF i > Len(block) THEN <<>>
    ELSE (IF Passes(objs[block[i]], max_visibility, derived)
          THEN <<block[i]>> ELSE <<>>)
         \o KeepPassing(block, objs, max_visibility, derived, i + 1)

\* HardwareView.filter, after the loop has handled the blocks i.. of self:
\* the filtered view, and self.
RECURSIVE HardwareFilterLoop(_, _, _, _, _, _)
HardwareFilterLoop(self, objs, max_visibility, derived, i, filtered_view) ==
    IF i > Len(self)
    THEN [filtered_view |-> filtered_view, self |-> self]
    ELSE LET filtered_block ==
                 [btype |-> self[i].btype,
                  counters |-> KeepPassing(self[i].counters, objs,
                                           max_visibility, derived, 1)]
         IN  HardwareFilterLoop(self, objs, max_visibility, derived, i + 1,
                                IF filtered_block.counters # <<>>
                                THEN Append(filtered_view, filtered_block)
                                ELSE filtered_view)

HardwareViewFilter(self, objs, max_visibility, derived) ==
    HardwareFilterLoop(self, objs, max_visibility, derived, 1, <<>>)

\* The presentation layout: sections, their groups, their counter names.
SemanticLayout ==
    << [name |-> "S1",
        groups |-> << [name |-> "G1", counters |-> <<"a", "b", "k", "u">>],
                      [name |-> "G2",
                       counters |-> <<"c", "d", "i", "x", "j">>] >>],
       [name |-> "S2",
        groups |-> << [name |-> "G3",
                       counters |-> <<"e", "f", "g", "h">>] >>] >>

\* Documentation candidates of one section or group: the gpu_support list of
\* each candidate, in file order.
DefaultOnly == << {} >>
NoCandidates == << >>
OtherGpuOnly == << {"g2"} >>
ExactThenDefaults == << {"g1"}, {}, {} >>
TwoDefaults == << {}, {} >>
DefaultExactDefault == << {}, {"g1"}, {} >>
DefaultsThenExact == << {}, {}, {"g1"} >>

\* A documentation database: the candidates of each name.
InfoDb(special, candidates) ==
    [n \in {"S1", "S2", "G1", "G2", "G3"} |->
        IF n = special THEN candidates ELSE DefaultOnly]

\* The (sec_db, grp_db) pairs a SemanticView is built from.
InfoDbs ==
    { InfoDb("", DefaultOnly), InfoDb("G2", NoCandidates),
      InfoDb("S2", OtherGpuOnly), InfoDb("G1", TwoDefaults),
      InfoDb("S1", ExactThenDefaults),
      InfoDb("G3", DefaultExactDefault), InfoDb("S2", DefaultsThenExact),
      [InfoDb("S2", OtherGpuOnly) EXCEPT !["G3"] = TwoDefaults] }

\* A get_info_for that keeps the last default it meets and never fails on a
\* second default.
get_info_for_last_default(db, key, name) ==
    IF db[name] = <<>> THEN Raise("KeyError", "No entry")
    ELSE IF \E i \in 1..Len(db[name]) : key \in db[name][i]
    THEN Return(CHOOSE i \in 1..Len(db[name]) :
                   /\ key \in db[name][i]
                   /\ \A j \in 1..(i - 1) : key \notin db[name][j])
    ELSE IF \E i \in 1..Len(db[name]) : db[name][i] = {}
    THEN Return(CHOOSE i \in 1..Len(db[name]) :
                   /\ db[name][i] = {}
                   /\ \A j \in (i + 1)..Len(db[name]) : db[name][j] # {})
    ELSE Raise("KeyError", "No default")

\* get_info_for, after the loop has handled the candidates i..: the position
\* of the candidate that is returned, or the exception.  default is the
\* position of the default seen so far, 0 for None.
RECURSIVE InfoLoop(_, _, _, _)
InfoLoop(list, key, i, default) ==
    IF i > Len(list)
    THEN IF default = 0 THEN Raise("KeyError", "No default")
         ELSE Return(default)
    ELSE IF key \in list[i] THEN Return(i)
    ELSE IF list[i] = {}
    THEN IF default # 0 THEN Raise("AssertionError", "default")
         ELSE InfoLoop(list, key, i + 1, i)
    ELSE InfoLoop(list, key, i + 1, default)

get_info_for(db, key, name) ==
    IF db[name] = <<>> THEN Raise("KeyError", "No entry")
    ELSE InfoLoop(db[name], key, 1, 0)

\* SemanticGroupView.from_db, after the loop has handled the counter names
\* i.. of the layout group: the counters dict.
RECURSIVE GroupCountersLoop(_, _, _, _)
GroupCountersLoop(sem_db, i_view, i, counters) ==
    IF i > Len(sem_db.counters) THEN counters
    ELSE LET child_view ==
                 get_by_group_names(i_view, sem_db.name, sem_db.counters[i])
         IN  GroupCountersLoop(sem_db, i_view, i + 1,
                               IF child_view # NoRef
                               THEN DictPut(counters, sem_db.counters[i],
                                            child_view)
                               ELSE counters)

SemanticGroupViewFromDb(gpu, sem_db, grp_db, i_view) ==
    LET info == get_info_for(grp_db, gpu, sem_db.name)
    IN  IF ~info.ok THEN info
        ELSE Return([name |-> sem_db.name, info |-> info.value,
                     counters |-> GroupCountersLoop(sem_db, i_view, 1,
                                                    EmptyDict)])

\* SemanticSectionView.from_db, after the loop has handled the groups i..
RECURSIVE SectionGroupsLoop(_, _, _, _, _, _)
SectionGroupsLoop(key, sem_db, grp_db, i_view, i, groups) ==
    IF i > Len(sem_db.groups) THEN Return(groups)
    ELSE LET child_view == SemanticGroupViewFromDb(key, sem_db.groups[i],
                                                   grp_db, i_view)
         IN  IF ~child_view.ok
             THEN IF child_view.exc = "KeyError"
                  THEN SectionGroupsLoop(key, sem_db, grp_db, i_view, i + 1,
                                         groups)
                  ELSE child_view
             ELSE SectionGroupsLoop(key, sem_db, grp_db, i_view, i + 1,
                      IF Len(child_view.value.counters) # 0
                      THEN DictPut(groups, sem_db.groups[i].name,
                                   child_view.value)
                      ELSE groups)

SemanticSectionViewFromDb(key, sem_db, sec_db, grp_db, i_view) ==
    LET info == get_info_for(sec_db, key, sem_db.name)
    IN  IF ~info.ok THEN info
        ELSE LET groups == SectionGroupsLoop(key, sem_db, grp_db, i_view, 1,
                                             EmptyDict)
             IN  IF ~groups.ok THEN groups
                 ELSE Return([name |-> sem_db.name, info |-> info.value,
                              groups |-> groups.value])

\* SemanticView.from_db, after the loop has handled the sections i..
RECURSIVE SemanticViewLoop(_, _, _, _, _, _, _)
SemanticViewLoop(key, sem_db, sec_db, grp_db, i_view, i, sections) ==
    IF i > Len(sem_db) THEN Return([sections |-> sections])
    ELSE LET child_view == SemanticSectionViewFromDb(key, sem_db[i], sec_db,
                                                     grp_db, i_view)
         IN  IF ~child_view.ok
             THEN IF child_view.exc = "KeyError"
                  THEN SemanticViewLoop(key, sem_db, sec_db, grp_db, i_view,
                                        i + 1, sections)
                  ELSE child_view
             ELSE SemanticViewLoop(key, sem_db, sec_db, grp_db, i_view, i + 1,
                      IF Len(child_view.value.groups) # 0
                      THEN DictPut(sections, sem_db[i].name, child_view.value)
                      ELSE sections)

SemanticViewFromDb(key, sem_db, sec_db, grp_db, i_view) ==
    SemanticViewLoop(key, sem_db, sec_db, grp_db, i_view, 1, EmptyDict)

\* The counters of a group that the filter loop keeps.
RECURSIVE KeepPassingItems(_, _, _, _, _)
KeepPassingItems(counters, objs, max_visibility, derived, i) ==
    IF i > Len(counters) THEN EmptyDict
    ELSE (IF Passes(objs[counters[i].val], max_visibility, derived)
          THEN <<counters[i]>> ELSE <<>>)
         \o KeepPassingItems(counters, objs, max_visibility, derived, i + 1)

\* The groups of a section after the filter loop has handled the groups i..
RECURSIVE FilterGroupsLoop(_, _, _, _, _, _)
FilterGroupsLoop(groups, objs, max_visibility, derived, i, flt_groups) ==
    IF i > Len(groups) THEN flt_groups
    ELSE LET grp == groups[i].val
             flt_grp == [name |-> groups[i].key, info |-> grp.info,
                         counters |-> KeepPassingItems(grp.counters, objs,
                                          max_visibility, derived, 1)]
         IN  FilterGroupsLoop(groups, objs, max_visibility, derived, i + 1,
                              IF flt_grp.counters # <<>>
                              THEN DictPut(flt_groups, groups[i].key, flt_grp)
                              ELSE flt_groups)

\* SemanticView.filter, after the loop has handled the sections i.. of self:
\* the filtered view, and self.
RECURSIVE SemanticFilterLoop(_, _, _, _, _, _)
SemanticFilterLoop(self, objs, max_visibility, derived, i, flt_view) ==
    IF i > Len(self.sections)
    THEN [flt_view |-> flt_view, self |-> self]
    ELSE LET sec == self.sections[i].val
             flt_sec == [name |-> self.sections[i].key, info |-> sec.info,
                         groups |-> FilterGroupsLoop(sec.groups, objs,
                                        max_visibility, derived, 1,
                                        EmptyDict)]
         IN  SemanticFilterLoop(self, objs, max_visibility, derived, i + 1,
                 IF flt_sec.groups # <<>>
                 THEN [flt_view EXCEPT
                         !.sections = DictPut(@, self.sections[i].key,
                                              flt_sec)]
                 ELSE flt_view)

\* A filter that keeps the sections its loop has emptied.
SemanticViewFilterKeepEmpty(self, objs, max_visibility, derived) ==
    [flt_view |->
        [sections |->
            [i \in 1..Len(self.sections) |->
                [key |-> self.sections[i].key,
                 val |-> [name |-> self.sections[i].key,
                          info |-> self.sections[i].val.info,
                          groups |-> FilterGroupsLoop(
                                         self.sections[i].val.groups, objs,
                                         max_visibility, derived, 1,
                                         EmptyDict)]]]],
     self |-> self]

SemanticViewFilter(self, objs, max_visibility, derived) ==
    SemanticFilterLoop(self, objs, max_visibility, derived, 1,
                       [sections |-> EmptyDict])

\* ------------------------------------------------------------------------
\* Part 4a: the validator, validate_stable_ids
\* ------------------------------------------------------------------------

\* Largest number of entries in the counter database the validator patches.
MaxIdDb == 3

\* CounterInfo.stable_id is None.
NoId == -1

\* The stable IDs and machine names of the entries of a validated database.
StableIds == {NoId, 0, 1, 2}
MachineNames == {"MaliA", "MaliB", "MaliC"}

\* The fields of a CounterInfo that validate_stable_ids reads and writes.
IdEntry == [machine_name : MachineNames, stable_id : StableIds]

\* The reasons of the two errors of the first loop of validate_stable_ids.
IdReused == "Stable ID reused for a different Machine Name"
NameOtherId == "Machine Name alias using a different Stable ID"

\* A first loop that compares each entry with the entry just before it only.
RECURSIVE ScanStableIdsAdjacent(_, _, _, _, _, _, _)
ScanStableIdsAdjacent(cnt_db, i, found_ids, found_names, missing_ids, errors, printed) ==
    IF i > Len(cnt_db)
    THEN [found_ids |-> found_ids, found_names |-> found_names,
          missing_ids |-> missing_ids, errors |-> errors,
          printed |-> printed]
    ELSE LET stable_id == cnt_db[i].stable_id
             machine_name == cnt_db[i].machine_name
         IN  IF stable_id = NoId
             THEN ScanStableIdsAdjacent(cnt_db, i + 1, found_ids, found_names,
                      DictPut(missing_ids, machine_name,
                          IF machine_name \in DictKeys(missing_ids)
                          THEN Append(DictGet(missing_ids, machine_name), i)
                          ELSE <<i>>),
                      errors, printed)
             ELSE LET id_reused ==
                          /\ i > 1
                          /\ cnt_db[i - 1].stable_id = stable_id
                          /\ cnt_db[i - 1].machine_name # machine_name
                      name_other_id ==
                          /\ i > 1
                          /\ cnt_db[i - 1].machine_name = machine_name
                          /\ cnt_db[i - 1].stable_id # NoId
                          /\ cnt_db[i - 1].stable_id # stable_id
                  IN  ScanStableIdsAdjacent(cnt_db, i + 1,
                          IF stable_id \notin DictKeys(found_ids)
                          THEN DictPut(found_ids, stable_id, i)
                          ELSE found_ids,
                          IF machine_name \notin DictKeys(found_names)
                          THEN DictPut(found_names, machine_name, i)
                          ELSE found_names,
                          missing_ids,
                          errors + (IF id_reused THEN 1 ELSE 0)
                                 + (IF name_other_id THEN 1 ELSE 0),
                          printed
                              \o (IF id_reused THEN <<IdReused>> ELSE <<>>)
                              \o (IF name_other_id THEN <<NameOtherId>>
                                  ELSE <<>>))

\* The first loop of validate_stable_ids, after the entries before i:
\* found_ids and found_names hold the first entry (its position) seen with
\* each ID and name, missing_ids the positions without an ID, per name,
\* printed the reasons that print_err_c has printed, in order.
RECURSIVE ScanStableIds(_, _, _, _, _, _, _)
ScanStableIds(cnt_db, i, found_ids, found_names, missing_ids, errors, printed) ==
    IF i > Len(cnt_db)
    THEN [found_ids |-> found_ids, found_names |-> found_names,
          missing_ids |-> missing_ids, errors |-> errors,
          printed |-> printed]
    ELSE LET stable_id == cnt_db[i].stable_id
             machine_name == cnt_db[i].machine_name
         IN  IF stable_id = NoId
             THEN ScanStableIds(cnt_db, i + 1, found_ids, found_names,
                      DictPut(missing_ids, machine_name,
                          IF machine_name \in DictKeys(missing_ids)
                          THEN Append(DictGet(missing_ids, machine_name), i)
                          ELSE <<i>>),
                      errors, printed)
             ELSE LET id_new == stable_id \notin DictKeys(found_ids)
                      id_reused ==
                          /\ ~id_new
                          /\ cnt_db[DictGet(found_ids, stable_id)].machine_name
                                # machine_name
                      name_new == machine_name \notin DictKeys(found_names)
                      name_other_id ==
                          /\ ~name_new
                          /\ cnt_db[DictGet(found_names, machine_name)].stable_id
                                # stable_id
                  IN  ScanStableIds(cnt_db, i + 1,
                          IF id_new THEN DictPut(found_ids, stable_id, i)
                          ELSE found_ids,
                          IF name_new
                          THEN DictPut(found_names, machine_name, i)
                          ELSE found_names,
                          missing_ids,
                          errors + (IF id_reused THEN 1 ELSE 0)
                                 + (IF name_other_id THEN 1 ELSE 0),
                          printed
                              \o (IF id_reused THEN <<IdReused>> ELSE <<>>)
                              \o (IF name_other_id THEN <<NameOtherId>>
                                  ELSE <<>>))

\* get_unassigned_id: the first i of range(0, max(found_ids.keys()) + 2) that
\* is not in found_ids; max() of no keys raises ValueError.
get_unassigned_id(found_ids) ==
    IF DictKeys(found_ids) = {} THEN Raise("ValueError", "max")
    ELSE LET top == CHOOSE m \in DictKeys(found_ids) :
                        \A k \in DictKeys(found_ids) : k <= m
         IN  Return(CHOOSE i \in 0..(top + 1) :
                        /\ i \notin DictKeys(found_ids)
                        /\ \A j \in 0..(i - 1) : j \in DictKeys(found_ids))

\* A patch loop that assigns nothing.
PatchNothing(cnt_db, counters, stable_id) == cnt_db

\* for counter in counters: counter.stable_id = stable_id
PatchCounters(cnt_db, counters, stable_id) ==
    [i \in 1..Len(cnt_db) |->
        IF \E j \in 1..Len(counters) : counters[j] = i
        THEN [cnt_db[i] EXCEPT !.stable_id = stable_id]
        ELSE cnt_db[i]]

\* The second loop of validate_stable_ids, after the names before i of
\* missing_ids: the patched database, the error count and the number of
\* counters given an ID, or the exception that ended the loop.
RECURSIVE AssignStableIds(_, _, _, _, _)
AssignStableIds(cnt_db, scan, i, errors, assigned) ==
    IF i > Len(scan.missing_ids)
    THEN [ok |-> TRUE, cnt_db |-> cnt_db, errors |-> errors,
          assigned |-> assigned, printed |-> scan.printed]
    ELSE LET machine_name == scan.missing_ids[i].key
             counters == scan.missing_ids[i].val
             stable_id ==
                 IF machine_name \in DictKeys(scan.found_names)
                 THEN Return(cnt_db[DictGet(scan.found_names,
                                            machine_name)].stable_id)
                 ELSE get_unassigned_id(scan.found_ids)
         IN  IF ~stable_id.ok
             THEN [ok |-> FALSE, exc |-> stable_id.exc, cnt_db |-> cnt_db,
                   errors |-> errors, assigned |-> assigned,
                   printed |-> scan.printed]
             ELSE AssignStableIds(
                      PatchCounters(cnt_db, counters, stable_id.value),
                      scan, i + 1, errors + Len(counters),
                      assigned + Len(counters))

\* validate_stable_ids on the database cnt_db.
validate_stable_ids(cnt_db) ==
    LET scan == ScanStableIds(cnt_db, 1, EmptyDict, EmptyDict, EmptyDict, 0, <<>>)
    IN  AssignStableIds(cnt_db, scan, 1, scan.errors, 0)

\* A run of validate_stable_ids that has not been made.
NotRun == [ok |-> FALSE, exc |-> None, cnt_db |-> <<>>, errors |-> 0,
           assigned |-> 0, printed |-> <<>>]

\* ------------------------------------------------------------------------
\* Part 4b: the validator, validate_semantic_layout
\* ------------------------------------------------------------------------

\* Largest number of entries in the counter database checked against a
\* layout.
MaxLayoutDb == 3

\* print_err_c(reason, name): the bag of the messages printed.  A name is
\* the sequence of its parts.
NoErrors == EmptyBag
PrintErrC(reason, name) == SetToBag({[reason |-> reason, name |-> name]})

\* f'{gname}.{cname}'
Dotted(gname, cname) == <<gname, ".", cname>>

\* The messages of one reason, one for each name of the set.
PrintEach(reason, names) ==
    SetToBag({[reason |-> reason, name |-> n] : n \in names})

\* The counters loop of the uniqueness check, after the counters before i of
\* the group: group_counters and the messages printed.
RECURSIVE SeenCountersLoop(_, _, _, _)
SeenCountersLoop(group, i, group_counters, printed) ==
    IF i > Len(group.counters)
    THEN [group_counters |-> group_counters, printed |-> printed]
    ELSE LET cname == group.counters[i]
         IN  SeenCountersLoop(group, i + 1, Append(group_counters, cname),
                 IF \E j \in 1..Len(group_counters) : group_counters[j] = cname
                 THEN printed (+) PrintErrC("Duplicate counter in SemanticLayout",
                                            Dotted(group.name, cname))
                 ELSE printed)

\* The groups loop of the uniqueness check, after the groups before i of the
\* section.
RECURSIVE SeenGroupsLoop(_, _, _, _)
SeenGroupsLoop(section, i, seen_groups, printed) ==
    IF i > Len(section.groups)
    THEN [seen_groups |-> seen_groups, printed |-> printed]
    ELSE LET group == section.groups[i]
             dup == IF group.name \in DictKeys(seen_groups)
                    THEN PrintErrC("Duplicate group in SemanticLayout",
                                   <<group.name>>)
                    ELSE NoErrors
             c == SeenCountersLoop(group, 1, <<>>, printed (+) dup)
         IN  SeenGroupsLoop(section, i + 1,
                 DictPut(seen_groups, group.name,
                         [sname |-> section.name, count |-> 0,
                          sl_names |-> c.group_counters, cnt_names |-> <<>>]),
                 c.printed)

\* The sections loop of the uniqueness check, after the sections before i.
RECURSIVE SeenSectionsLoop(_, _, _, _, _)
SeenSectionsLoop(sl_db, i, seen_sections, seen_groups, printed) ==
    IF i > Len(sl_db)
    THEN [seen_sections |-> seen_sections, seen_groups |-> seen_groups,
          printed |-> printed]
    ELSE LET section == sl_db[i]
             dup == IF section.name \in DictKeys(seen_sections)
                    THEN PrintErrC("Duplicate section in SemanticLayout",
                                   <<section.name>>)
                    ELSE NoErrors
             g == SeenGroupsLoop(section, 1, seen_groups, printed (+) dup)
         IN  SeenSectionsLoop(sl_db, i + 1,
                              DictPut(seen_sections, section.name, 0),
                              g.seen_groups, g.printed)

\* The loop over the counter database, after the entries before i: the
\* counts and names gathered per group and section, and the messages.
RECURSIVE GroupOfCountersLoop(_, _, _, _, _)
GroupOfCountersLoop(cnt_db, i, seen_sections, seen_groups, printed) ==
    IF i > Len(cnt_db)
    THEN [seen_sections |-> seen_sections, seen_groups |-> seen_groups,
          printed |-> printed]
    ELSE LET gname == cnt_db[i].group_name
         IN  IF gname \notin DictKeys(seen_groups)
             THEN GroupOfCountersLoop(cnt_db, i + 1, seen_sections,
                      seen_groups,
                      printed (+) PrintErrC("Missing group in SemanticLayout",
                                            <<gname>>))
             ELSE LET g == DictGet(seen_groups, gname)
                  IN  GroupOfCountersLoop(cnt_db, i + 1,
                          DictPut(seen_sections, g.sname,
                                  DictGet(seen_sections, g.sname) + 1),
                          DictPut(seen_groups, gname,
                                  [g EXCEPT
                                     !.count = @ + 1,
                                     !.cnt_names =
                                        Append(@, cnt_db[i].group_human_name)]),
                          printed)

\* set(x for x in names)
SetOf(names) == {names[i] : i \in 1..Len(names)}

\* A check that compares the lists of names, not their sets.
ExtrasPrintedPerEntry(seen_sections, seen_groups) ==
    LET OfGroups[i \in 0..Len(seen_groups)] ==
            IF i = 0 THEN NoErrors
            ELSE LET g == seen_groups[i]
                     Extra[j \in 0..Len(g.val.cnt_names)] ==
                         IF j = 0 THEN NoErrors
                         ELSE Extra[j - 1] (+)
                              (IF g.val.cnt_names[j] \in SetOf(g.val.sl_names)
                               THEN NoErrors
                               ELSE PrintErrC(
                                        "Extra semantic counter in CounterInfo",
                                        Dotted(g.key, g.val.cnt_names[j])))
                 IN  OfGroups[i - 1] (+) Extra[Len(g.val.cnt_names)]
    IN  OfGroups[Len(seen_groups)]

\* The messages of the loops over seen_sections and seen_groups.
ExtrasPrinted(seen_sections, seen_groups) ==
    LET empty_sections ==
            {<<seen_sections[i].key>> :
                i \in {j \in 1..Len(seen_sections) : seen_sections[j].val = 0}}
        empty_groups ==
            {<<seen_groups[i].key>> :
                i \in {j \in 1..Len(seen_groups) : seen_groups[j].val.count = 0}}
        sl_only(g) == SetOf(g.val.sl_names) \ SetOf(g.val.cnt_names)
        cnt_only(g) == SetOf(g.val.cnt_names) \ SetOf(g.val.sl_names)
        OfGroups[i \in 0..Len(seen_groups)] ==
            IF i = 0 THEN NoErrors
            ELSE OfGroups[i - 1]
                 (+) PrintEach("Extra semantic counter in SemanticLayout",
                        {Dotted(seen_groups[i].key, c) :
                            c \in sl_only(seen_groups[i])})
                 (+) PrintEach("Extra semantic counter in CounterInfo",
                        {Dotted(seen_groups[i].key, c) :
                            c \in cnt_only(seen_groups[i])})
    IN  PrintEach("Extra section in SemanticLayout", empty_sections)
        (+) PrintEach("Extra group in SemanticLayout", empty_groups)
        (+) OfGroups[Len(seen_groups)]

\* validate_semantic_layout: the error count and the messages printed.  Each
\* error is counted where its message is printed.
validate_semantic_layout(cnt_db, sl_db) ==
    LET seen == SeenSectionsLoop(sl_db, 1, EmptyDict, EmptyDict, NoErrors)
    IN  IF BagCardinality(seen.printed) # 0
        THEN [errors |-> BagCardinality(seen.printed),
              printed |-> seen.printed]
        ELSE LET counted == GroupOfCountersLoop(cnt_db, 1, seen.seen_sections,
                                                seen.seen_groups, NoErrors)
                 printed == counted.printed
                            (+) ExtrasPrinted(counted.seen_sections,
                                              counted.seen_groups)
             IN  [errors |-> BagCardinality(printed), printed |-> printed]

\* A check that has not been run.
NoCheckRun == [errors |-> 0, printed |-> NoErrors]

\* ------------------------------------------------------------------------
\* Part 4c: the validator, validate_derived_equation_cardinality
\* ------------------------------------------------------------------------

\* domains: the cardinality domain of a hardware block type.
domains(block_type) ==
    CASE block_type \in {"GPU_FRONTEND", "TILER"} -> "GPU"
      [] block_type = "MEMORY_SYSTEM" -> "MEM"
      [] block_type = "SHADER_CORE" -> "SC"

\* scaling_constants, as the set of its items.
scaling_constants ==
    { <<"MALI_CONFIG_L2_CACHE_COUNT", "MEM">>,
      <<"MALI_CONFIG_SHADER_CORE_COUNT", "SC">> }

other_constants == {"MALI_CONFIG_TIME_SPAN", "MALI_CONFIG_EXT_BUS_BYTE_SIZE"}

exceptions == {"MaliFragOverdraw", "MaliSCBusTileWrBPerPx"}

\* equation_ast_resolved.find_data('name'): str(node.children[0]) of every
\* 'name' subtree.  The text of a nested tree has a '(', the text of None is
\* 'None'.
RECURSIVE FindDataName(_)
FindDataName(t) ==
    CASE t.k = "name" -> {[var_name |-> t.v, paren |-> FALSE]}
      [] t.k = "num" -> {}
      [] t.k = "refnone" -> {[var_name |-> "None", paren |-> FALSE]}
      [] t.k = "ref" ->
            {[var_name |-> "Tree(start, ...)", paren |-> TRUE]}
                \cup FindDataName(t.t)
      [] t.k = "fn" ->
            UNION {FindDataName(t.args[i]) : i \in 1..Len(t.args)}
      [] OTHER -> FindDataName(t.a) \cup FindDataName(t.b)

\* A check that reports one error for an equation, whatever the number of
\* domains without their constant.
MissingScalingOnce(domain_use, scale_use) ==
    IF (domain_use \ {"GPU"}) \ scale_use = {} THEN {}
    ELSE {CHOOSE d \in (domain_use \ {"GPU"}) \ scale_use : TRUE}

\* A check that skips no equation for the number of its domains.
MissingScalingAnyCount(domain_use, scale_use) ==
    {domain \in domain_use : domain # "GPU" /\ domain \notin scale_use}

\* The domains of an equation that are reported: with more than one domain
\* in use, every domain other than GPU whose constant is not in use.
MissingScaling(domain_use, scale_use) ==
    IF Cardinality(domain_use) <= 1 THEN {}
    ELSE {domain \in domain_use : domain # "GPU" /\ domain \notin scale_use}

\* The body of the loop for one counter: the domains reported for it, or
\* the assertion that failed.
CardinalityOfCounter(cnt_db, objs, counter) ==
    IF is_derived(counter) = FALSE
       \/ counter.equation_ast_resolved = NoEquation
       \/ counter.machine_name \in exceptions
    THEN Return({})
    ELSE LET nodes == FindDataName(counter.equation_ast_resolved)
             used == {n.var_name : n \in
                        {m \in nodes : /\ m.var_name \notin other_constants
                                       /\ ~m.paren}}
             scales == {n \in used : \E s \in scaling_constants : s[1] = n}
             scale_use == {s[2] : s \in {x \in scaling_constants :
                                            x[1] \in scales}}
             counters == used \ scales
             missing == {n \in counters :
                            get_by_machine_name(cnt_db, n) = NoRef}
             blockless == {n \in counters \ missing :
                 objs[get_by_machine_name(cnt_db, n)].block_type = None}
         IN  IF missing # {}
             THEN Raise("AssertionError", "var_counter is not None")
             ELSE IF blockless # {}
             THEN Raise("AssertionError", "index is not None")
             ELSE Return(MissingScaling(
                      {domains(objs[get_by_machine_name(cnt_db, n)].block_type)
                          : n \in counters},
                      scale_use))

\* validate_derived_equation_cardinality, after the counters before i of the
\* view: the error count and the messages printed, or the exception.
RECURSIVE CardinalityLoop(_, _, _, _, _)
CardinalityLoop(cnt_db, objs, counters, i, printed) ==
    IF i > Len(counters)
    THEN Return([errors |-> BagCardinality(printed), printed |-> printed])
    ELSE LET r == CardinalityOfCounter(cnt_db, objs, objs[counters[i]])
         IN  IF ~r.ok THEN r
             ELSE CardinalityLoop(cnt_db, objs, counters, i + 1,
                      printed (+) PrintEach("Missing cardinality scaling",
                          {<<objs[counters[i]].machine_name, d>> :
                              d \in r.value}))

validate_derived_equation_cardinality(cnt_db, objs) ==
    CardinalityLoop(cnt_db, objs, DictValues(cnt_db.by_machine_name), 1,
                    NoErrors)

\* ------------------------------------------------------------------------
\* Part 4d: the validator, validate_string_resolve
\* ------------------------------------------------------------------------

\* Largest number of {{...}} references in a documentation string.
MaxDocRefs == 2

\* A string is the sequence of its pieces: a separator character, or a run
\* of characters without a separator.
\* s.partition(sep): the part before the first sep, and the part after it;
\* all of s and the empty string when s has no sep.
Partition(s, sep) ==
    LET at == {i \in 1..(Len(s) - Len(sep) + 1) :
                  SubSeq(s, i, i + Len(sep) - 1) = sep}
    IN  IF at = {} THEN [head |-> s, tail |-> <<>>]
        ELSE LET i == CHOOSE x \in at : \A y \in at : x <= y
             IN  [head |-> SubSeq(s, 1, i - 1),
                  tail |-> SubSeq(s, i + Len(sep), Len(s))]

\* The machine name a string spells: a string of several pieces, or of none,
\* is the name of no counter.
AsName(s) == IF Len(s) = 1 THEN s[1] ELSE ""

valid_constants == {<<"GPU_NAME">>}
valid_parts == {<<>>, <<"equation">>}

\* A partition of the reference at the single colon.
PartitionAtColon(s, sep) == Partition(s, <<":">>)

\* matched.partition('::')
PartitionType(s, sep) == Partition(s, sep)

\* The errors of the loop body for one match of the pattern.
ErrorsOfMatch(cnt_db, matched) ==
    LET typed == PartitionType(matched, <<":", ":">>)
        ref_type == typed.head
        named == Partition(typed.tail, <<".">>)
        ref_name == named.head
        ref_part == named.tail
    IN  IF ref_type = <<"K">>
        THEN (IF ref_name \notin valid_constants THEN 1 ELSE 0)
             + (IF ref_part # <<>> THEN 1 ELSE 0)
        ELSE IF ref_type = <<"C">>
        THEN (IF ref_part \notin valid_parts THEN 1 ELSE 0)
             + (IF get_by_machine_name(cnt_db, AsName(ref_name)) = NoRef
                THEN 1 ELSE 0)
        ELSE 1

\* validate_string_resolve, after the matches before i of the pattern in
\* docs: the error count.
RECURSIVE validate_string_resolve(_, _, _)
validate_string_resolve(cnt_db, docs, i) ==
    IF i > Len(docs) THEN 0
    ELSE ErrorsOfMatch(cnt_db, docs[i])
         + validate_string_resolve(cnt_db, docs, i + 1)

\* ------------------------------------------------------------------------
\* Part 4e: the validator, the other checks that main calls
\* ------------------------------------------------------------------------

\* validate_gpu_fields: a (counter, gpu) pair whose gpu is no database key
\* is an error.  The documentation entries checked name no gpu.
validate_gpu_fields(cnt_db, keys) ==
    Cardinality(UNION {{<<i, gpu>> : gpu \in cnt_db[i].gpu_support \ keys} :
                          i \in 1..Len(cnt_db)})

\* validate_derived_equation_fields: a counter with an equation text and no
\* equation AST is an error.
validate_derived_equation_fields(cnt_db) ==
    Cardinality({i \in 1..Len(cnt_db) :
                    /\ cnt_db[i].source_name = None
                    /\ cnt_db[i].equation_ast = NoEquation})

\* validate_semantic_info: a documentation entry of a section or a group
\* that the layout does not have is an error.
validate_semantic_info(sl_db, sl_sdb, sl_gdb) ==
    LET layout_s == {sl_db[i].name : i \in 1..Len(sl_db)}
        layout_g == UNION {{sl_db[i].groups[j].name :
                              j \in 1..Len(sl_db[i].groups)} :
                           i \in 1..Len(sl_db)}
    IN  Cardinality(sl_sdb \ layout_s) + Cardinality(sl_gdb \ layout_g)

\* validate_name_uniqueness, after the counters before i: the error count.
\* A counter without a source name that follows another one is skipped.
RECURSIVE NameUniquenessLoop(_, _, _, _, _)
NameUniquenessLoop(cnt_db, gpu, i, found, errors) ==
    IF i > Len(cnt_db) THEN errors
    ELSE LET counter == cnt_db[i]
             group_name == <<counter.group_name, ".",
                             counter.group_human_name>>
         IN  IF ~supports_gpu(counter, gpu)
             THEN NameUniquenessLoop(cnt_db, gpu, i + 1, found, errors)
             ELSE IF counter.source_name \in found.source_names
                     /\ counter.source_name = None
             THEN NameUniquenessLoop(cnt_db, gpu, i + 1, found, errors)
             ELSE NameUniquenessLoop(cnt_db, gpu, i + 1,
                      [source_names |->
                           found.source_names \cup {counter.source_name},
                       machine_names |->
                           found.machine_names \cup {counter.machine_name},
                       human_names |->
                           found.human_names \cup {counter.human_name},
                       group_names |-> found.group_names \cup {group_name}],
                      errors
                      + (IF counter.source_name \in found.source_names
                         THEN 1 ELSE 0)
                      + (IF counter.machine_name \in found.machine_names
                         THEN 1 ELSE 0)
                      + (IF counter.human_name \in found.human_names
                         THEN 1 ELSE 0)
                      + (IF group_name \in found.group_names
                         THEN 1 ELSE 0))

validate_name_uniqueness(cnt_db, gpu) ==
    NameUniquenessLoop(cnt_db, gpu, 1,
        [source_names |-> {}, machine_names |-> {}, human_names |-> {},
         group_names |-> {}], 0)

\* validate_source_name_consistency: a source name of the hardware layout
\* without a counter in the view, and a source name of the view that is not
\* in the hardware layout, are errors.
validate_source_name_consistency(hw_db, cnt_db, objs) ==
    LET hw_source_names ==
            UNION {{hw_db[b].counters[c].name :
                       c \in 1..Len(hw_db[b].counters)} : b \in 1..Len(hw_db)}
        in_view == {objs[DictValues(cnt_db.by_machine_name)[i]] :
                       i \in 1..Len(cnt_db.by_machine_name)}
        cnt_source_names ==
            {x.source_name : x \in {y \in in_view : y.source_name # None}}
    IN  Cardinality(hw_source_names \ cnt_source_names)
        + Cardinality(cnt_source_names \ hw_source_names)

\* validate_derived_equation_resolve: a counter of the view with an
\* equation AST and no resolved AST is an error.
validate_derived_equation_resolve(cnt_db, objs) ==
    Cardinality({i \in 1..Len(cnt_db.by_machine_name) :
        LET counter == objs[cnt_db.by_machine_name[i].val]
        IN  /\ counter.equation_ast # NoEquation
            /\ counter.equation_ast_resolved = NoEquation})

\* ------------------------------------------------------------------------
\* Part 3: the state machines
\* ------------------------------------------------------------------------

VARIABLES
    pp_pc, pp_tree, pp_out, pp_ast, pp_out2,
    pc, ct_db, product, lark_none_ok, objects, view, resolved, flt, args,
    info_db, hw_view, hw_flt, sem_view, sem_flt,
    ids_pc, ids_db0, ids_db, ids_run1, ids_run2,
    lay_pc, lay_db, lay_layout, lay_run,
    card_run,
    doc_refs, doc_run,
    main_pc, main_errors, main_ran, main_exit, main_text,
    g_iview_db, g_hview_db, g_sview_db, cache_heap, cache_ret, cache_prev,
    expr_call,
    xml_pc, xml_infos, xml_doc, xml_back,
    names_pc, names_db, names_gpu, names_errors

ppVars == <<pp_pc, pp_tree, pp_out, pp_ast, pp_out2>>

dbVars == <<ct_db, product, lark_none_ok>>

ivVars == <<pc, objects, view, resolved, flt, args>>

svVars == <<info_db, hw_view, hw_flt, sem_view, sem_flt>>

idsVars == <<ids_pc, ids_db0, ids_db, ids_run1, ids_run2>>

layVars == <<lay_pc, lay_db, lay_layout, lay_run>>

cardVars == <<card_run>>

docVars == <<doc_refs, doc_run>>

mainVars == <<main_pc, main_errors, main_ran, main_exit, main_text>>

cacheVars ==
    <<g_iview_db, g_hview_db, g_sview_db, cache_heap, cache_ret, cache_prev>>

exprVars == <<expr_call>>

xmlVars == <<xml_pc, xml_infos, xml_doc, xml_back>>

namesVars == <<names_pc, names_db, names_gpu, names_errors>>

extVars == <<cacheVars, exprVars, xmlVars, namesVars>>

toolVars == <<idsVars, layVars, cardVars, docVars, mainVars, extVars>>

libVars == <<ppVars, dbVars, ivVars, svVars>>

vars == <<ppVars, dbVars, ivVars, svVars, toolVars>>

NoAst == [ast |-> NoneT, error |-> "None"]

\* A call that has not been made.
NotCalled == [ok |-> FALSE, exc |-> None]

NoArgs == [max_visibility |-> 0, derived |-> FALSE]

FilterArgs == [max_visibility : CounterVisibility, derived : BOOLEAN]

\* The printer variables when no equation is being printed.
PPIdle ==
    /\ pp_pc = "idle"
    /\ pp_tree = NoneT
    /\ pp_out = NoneValue
    /\ pp_ast = NoAst
    /\ pp_out2 = NoneValue

\* The view variables before any view is built.
NoViews ==
    /\ objects = <<>>
    /\ view = NoView
    /\ resolved = [view |-> "no", flt |-> "no", last |-> "none"]
    /\ flt = NoView
    /\ args = NoArgs
    /\ info_db = InfoDb("", DefaultOnly)
    /\ hw_view = NotCalled
    /\ hw_flt = NotCalled
    /\ sem_view = NotCalled
    /\ sem_flt = NotCalled

\* The validator variables when the validator is not run.
IdsIdle ==
    /\ ids_pc = "idle"
    /\ ids_db0 = <<>>
    /\ ids_db = <<>>
    /\ ids_run1 = NotRun
    /\ ids_run2 = NotRun

LayIdle ==
    /\ lay_pc = "idle"
    /\ lay_db = <<>>
    /\ lay_layout = <<>>
    /\ lay_run = NoCheckRun

CardIdle == card_run = NotCalled

DocIdle == doc_refs = <<>> /\ doc_run = NotCalled

MainIdle ==
    /\ main_pc = 0
    /\ main_errors = 0
    /\ main_ran = <<>>
    /\ main_exit = "idle"
    /\ main_text = <<>>

\* The caches of CounterDatabase when the class is created, and no call made.
CacheIdle ==
    /\ g_iview_db = EmptyDict
    /\ g_hview_db = EmptyDict
    /\ g_sview_db = EmptyDict
    /\ cache_heap = <<>>
    /\ cache_ret = [op |-> "none", name |-> None, ret |-> NotCalled,
                    built |-> 0]
    /\ cache_prev = [g \in {"get_indexed_view_for", "get_hardware_view_for",
                             "get_semantic_view_for"} |->
                       [n \in {"Mali-G1", "g1", "Mali-Z"} |-> NoRef]]

\* No rendering entry point has been called.
ExprIdle == expr_call = [fn |-> "none", counter |-> NoRef, unit |-> None,
                         ret |-> NotCalled]

\* No product database is serialized.
XmlIdle ==
    /\ xml_pc = "idle"
    /\ xml_infos = <<>>
    /\ xml_doc = <<>>
    /\ xml_back = NotCalled

\* validate_name_uniqueness is not run on its own.
NamesIdle ==
    /\ names_pc = "idle"
    /\ names_db = <<>>
    /\ names_gpu = None
    /\ names_errors = 0

ExtIdle == CacheIdle /\ ExprIdle /\ XmlIdle /\ NamesIdle

ToolsIdle == IdsIdle /\ LayIdle /\ CardIdle /\ DocIdle /\ MainIdle /\ ExtIdle

\* ---- print / parse / print again ----

\* The input is t as parsed from source text, or t as the resolver leaves it.
InputTree(t, is_resolved) ==
    pp_tree = IF is_resolved THEN Substituted(t) ELSE t

PPInit ==
    /\ pp_pc = "input"
    /\ \E is_resolved \in BOOLEAN :
          \/ \E t \in Leaves \cup ExampleTrees : InputTree(t, is_resolved)
          \/ \E n \in 1..MaxOps, kind \in NodeKinds :
               \E i \in 0..(n - 1) :
                 \E a \in TreesOfSize[i], b \in TreesOfSize[n - 1 - i] :
                    InputTree(MkNode(kind, a, b), is_resolved)
    /\ pp_out = NoneValue
    /\ pp_ast = NoAst
    /\ pp_out2 = NoneValue
    /\ pc = "idle"
    /\ ct_db = <<>>
    /\ product = ProductInfo("g1", {})
    /\ lark_none_ok = TRUE
    /\ NoViews
    /\ ToolsIdle

\* get_machine_name_expression / equation_ast_to_string on the input tree
PrintTree ==
    /\ pp_pc = "input"
    /\ pp_out' = EquationAstToString(pp_tree)
    /\ pp_pc' = "printed"
    /\ UNCHANGED <<pp_tree, pp_ast, pp_out2, dbVars, ivVars, svVars, toolVars>>

\* equation_string_to_ast on the printed string
ParseString ==
    /\ pp_pc = "printed"
    /\ pp_out.kind # "raise"
    /\ pp_ast' = EquationStringToAst(pp_out.string)
    /\ pp_pc' = "parsed"
    /\ UNCHANGED <<pp_tree, pp_out, pp_out2, dbVars, ivVars, svVars, toolVars>>

\* equation_ast_to_string on the parse result
PrintAgain ==
    /\ pp_pc = "parsed"
    /\ pp_ast.error = "None"
    /\ pp_out2' = EquationAstToString(pp_ast.ast)
    /\ pp_pc' = "reprinted"
    /\ UNCHANGED <<pp_tree, pp_out, pp_ast, dbVars, ivVars, svVars, toolVars>>

PPNext == PrintTree \/ ParseString \/ PrintAgain

SpecPP == PPInit /\ [][PPNext]_vars

\* ---- IndexedView: from_db, resolve_equations, filter ----

DbInit ==
    /\ PPIdle
    /\ pc = "db"
    /\ ct_db \in CounterDatabases
    /\ product \in Products
    /\ lark_none_ok \in BOOLEAN
    /\ NoViews
    /\ ToolsIdle

Init == DbInit

\* view = IndexedView.from_db(product, pi, hw_db, ct_db)
FromDb ==
    /\ pc = "db"
    /\ LET r == IndexedViewFromDb("Mali-G1", product, HardwareLayout, ct_db)
       IN  /\ view' = r.view
           /\ objects' = r.objects
    /\ pc' = "indexed"
    /\ UNCHANGED <<toolVars, ppVars, dbVars, resolved, flt, args, svVars>>

\* view.resolve_equations()
ResolveEquations ==
    /\ pc = "indexed"
    /\ resolved.view = "no"
    /\ LET r == resolve_equations(view, objects, lark_none_ok)
       IN  /\ objects' = r.objects
           /\ resolved' = [resolved EXCEPT
                  !.view = IF r.returned THEN "returned" ELSE "raised",
                  !.last = "view"]
           /\ pc' = IF r.returned THEN pc ELSE "raised"
    /\ UNCHANGED <<toolVars, ppVars, dbVars, view, flt, args, svVars>>

\* flt = view.filter(max_visibility, derived)
Filter ==
    /\ pc = "indexed"
    /\ flt = NoView
    /\ \E a \in FilterArgs :
         LET r == IndexedViewFilter(view, objects, a.max_visibility,
                                    a.derived)
         IN  /\ flt' = r.filtered_view
             /\ view' = r.self
             /\ args' = a
    /\ UNCHANGED <<toolVars, ppVars, dbVars, pc, objects, resolved, svVars>>

\* flt.resolve_equations()
ResolveEquationsFiltered ==
    /\ pc = "indexed"
    /\ flt # NoView
    /\ resolved.flt = "no"
    /\ LET r == resolve_equations(flt, objects, lark_none_ok)
       IN  /\ objects' = r.objects
           /\ resolved' = [resolved EXCEPT
                  !.flt = IF r.returned THEN "returned" ELSE "raised",
                  !.last = "flt"]
           /\ pc' = IF r.returned THEN pc ELSE "raised"
    /\ UNCHANGED <<toolVars, ppVars, dbVars, view, flt, args, svVars>>

Next == FromDb \/ ResolveEquations \/ Filter \/ ResolveEquationsFiltered

Spec == Init /\ [][Next]_vars

\* ---- HardwareView and SemanticView: from_db, filter ----

ViewsInit == DbInit

\* CounterDatabase.get_indexed_view_for: from_db, then resolve_equations
GetIndexedViewFor ==
    /\ pc = "db"
    /\ LET b == IndexedViewFromDb("Mali-G1", product, HardwareLayout, ct_db)
           r == resolve_equations(b.view, b.objects, lark_none_ok)
       IN  /\ view' = b.view
           /\ objects' = r.objects
           /\ resolved' = [resolved EXCEPT
                  !.view = IF r.returned THEN "returned" ELSE "raised",
                  !.last = "view"]
           /\ pc' = IF r.returned THEN "indexed" ELSE "raised"
    /\ UNCHANGED <<toolVars, ppVars, dbVars, flt, args, svVars>>

\* hw_view = HardwareView.from_db(hw_db, view)
HardwareViewFromDbCall ==
    /\ pc = "indexed"
    /\ hw_view' = HardwareViewFromDb(HardwareLayout, view)
    /\ pc' = "hardware"
    /\ UNCHANGED <<toolVars, ppVars, dbVars, objects, view, resolved, flt, args,
                   info_db, hw_flt, sem_view, sem_flt>>

\* hw_flt = hw_view.filter(max_visibility, derived)
HardwareViewFilterCall ==
    /\ pc = "hardware"
    /\ hw_view.ok
    /\ \E a \in FilterArgs :
         LET r == HardwareViewFilter(hw_view.value, objects,
                                     a.max_visibility, a.derived)
         IN  /\ hw_flt' = Return(r.filtered_view)
             /\ hw_view' = Return(r.self)
             /\ args' = a
    /\ pc' = "hardware_filtered"
    /\ UNCHANGED <<toolVars, ppVars, dbVars, objects, view, resolved, flt, info_db,
                   sem_view, sem_flt>>

\* sem_view = SemanticView.from_db(key, sem_db, sec_db, grp_db, view)
SemanticViewFromDbCall ==
    /\ pc = "indexed"
    /\ \E db \in InfoDbs :
         /\ info_db' = db
         /\ sem_view' = SemanticViewFromDb(product.database_key,
                                           SemanticLayout, db, db, view)
    /\ pc' = "semantic"
    /\ UNCHANGED <<toolVars, ppVars, dbVars, objects, view, resolved, flt, args,
                   hw_view, hw_flt, sem_flt>>

\* sem_flt = sem_view.filter(max_visibility, derived)
SemanticViewFilterCall ==
    /\ pc = "semantic"
    /\ sem_view.ok
    /\ \E a \in FilterArgs :
         LET r == SemanticViewFilter(sem_view.value, objects,
                                     a.max_visibility, a.derived)
         IN  /\ sem_flt' = Return(r.flt_view)
             /\ sem_view' = Return(r.self)
             /\ args' = a
    /\ pc' = "semantic_filtered"
    /\ UNCHANGED <<toolVars, ppVars, dbVars, objects, view, resolved, flt, info_db,
                   hw_view, hw_flt>>

ViewsNext ==
    \/ GetIndexedViewFor
    \/ HardwareViewFromDbCall
    \/ HardwareViewFilterCall
    \/ SemanticViewFromDbCall
    \/ SemanticViewFilterCall

SpecViews == ViewsInit /\ [][ViewsNext]_vars

\* ---- the validator: validate_stable_ids, run twice ----

\* The variables of the library when only the validator check is run.
LibraryIdle ==
    /\ PPIdle
    /\ pc = "idle"
    /\ ct_db = <<>>
    /\ product = ProductInfo("g1", {})
    /\ lark_none_ok = TRUE
    /\ NoViews

\* The counter databases the validator is run on.
IdDatabases == UNION {[1..n -> IdEntry] : n \in 0..MaxIdDb}

IdsInit ==
    /\ LibraryIdle
    /\ LayIdle
    /\ CardIdle
    /\ DocIdle
    /\ MainIdle /\ ExtIdle
    /\ ids_pc = "start"
    /\ ids_db0 \in IdDatabases
    /\ ids_db = ids_db0
    /\ ids_run1 = NotRun
    /\ ids_run2 = NotRun

\* errors += validate_stable_ids()
ValidateStableIds ==
    /\ ids_pc = "start"
    /\ LET r == validate_stable_ids(ids_db)
       IN  /\ ids_run1' = r
           /\ ids_db' = r.cnt_db
           /\ ids_pc' = IF r.ok THEN "once" ELSE "raised"
    /\ UNCHANGED <<extVars, ids_db0, ids_run2, libVars, layVars, cardVars, docVars, mainVars>>

\* validate_stable_ids() again, on the database the first run patched
ValidateStableIdsAgain ==
    /\ ids_pc = "once"
    /\ LET r == validate_stable_ids(ids_db)
       IN  /\ ids_run2' = r
           /\ ids_db' = r.cnt_db
           /\ ids_pc' = IF r.ok THEN "twice" ELSE "raised"
    /\ UNCHANGED <<extVars, ids_db0, ids_run1, libVars, layVars, cardVars, docVars, mainVars>>

IdsNext == ValidateStableIds \/ ValidateStableIdsAgain

SpecIds == IdsInit /\ [][IdsNext]_vars

\* ---- the validator: validate_semantic_layout ----

\* A group and a section of a layout.
GroupLayout(name, counters) == [name |-> name, counters |-> counters]
SectionLayout(name, groups) == [name |-> name, groups |-> groups]

\* The layouts the check is run on; the last has one group name in two
\* sections.
LayoutsChecked ==
    { << SectionLayout("S1", << GroupLayout("G1", <<"a", "b">>),
                                GroupLayout("G2", <<"a">>) >>) >>,
      << SectionLayout("S1", << GroupLayout("G1", <<"a">>) >>),
         SectionLayout("S2", << GroupLayout("G2", <<"b">>) >>) >>,
      << SectionLayout("S1", << GroupLayout("G1", <<"a", "b">>) >>) >>,
      << SectionLayout("S1", << GroupLayout("G1", <<"a">>) >>),
         SectionLayout("S2", << GroupLayout("G1", <<"b">>) >>) >> }

\* The fields of a CounterInfo that the check reads.
LayoutEntry == [group_name : {"G1", "G2", "G3"}, group_human_name : {"a", "b"}]

LayoutDatabases == UNION {[1..n -> LayoutEntry] : n \in 0..MaxLayoutDb}

LayInit ==
    /\ LibraryIdle
    /\ IdsIdle
    /\ CardIdle
    /\ DocIdle
    /\ MainIdle /\ ExtIdle
    /\ lay_pc = "start"
    /\ lay_db \in LayoutDatabases
    /\ lay_layout \in LayoutsChecked
    /\ lay_run = NoCheckRun

\* errors += validate_semantic_layout()
ValidateSemanticLayout ==
    /\ lay_pc = "start"
    /\ lay_run' = validate_semantic_layout(lay_db, lay_layout)
    /\ lay_pc' = "done"
    /\ UNCHANGED <<extVars, lay_db, lay_layout, libVars, idsVars, cardVars, docVars, mainVars>>

LayNext == ValidateSemanticLayout

SpecLayout == LayInit /\ [][LayNext]_vars

\* ---- the validator: validate_derived_equation_cardinality ----

\* The hardware layout of the product checked: HardwareLayout, and a tiler
\* block.
CardLayout ==
    HardwareLayout \o
    << [btype |-> "TILER", bank |-> 0,
        counters |-> << [name |-> "hwT", index |-> 0, shift |-> 0] >>] >>

\* The hardware counters of the database checked: a shader core counter, a
\* memory system counter, a tiler counter and a counter whose source name
\* is in no block of the layout.
CardNatives ==
    << CounterInfo("MaliA", 1, "hwA", <<"hwA">>, "G1", "a", "Name A",
                   NOVICE, NoEquation, {"g1"}),
       CounterInfo("MaliC", 3, "hwC", <<"hwC">>, "G2", "c", "Name C",
                   NOVICE, NoEquation, {"g1"}),
       CounterInfo("MaliT", 20, "hwT", <<"hwT">>, "G2", "t", "Name T",
                   NOVICE, NoEquation, {"g1"}),
       CounterInfo("MaliN", 21, "hwD", <<"hwD">>, "G2", "n", "Name N",
                   NOVICE, NoEquation, {"g1"}) >>

\* x / constant
Scaled(x, constant) == BinT("mul", "/", NameT(x), NameT(constant))

\* The operands of the equations checked.
CardTerms ==
    { NameT("MaliA"), NameT("MaliC"), NameT("MaliT"), NameT("MaliN"),
      Scaled("MaliA", "MALI_CONFIG_SHADER_CORE_COUNT"),
      Scaled("MaliC", "MALI_CONFIG_L2_CACHE_COUNT"),
      NameT("MALI_CONFIG_TIME_SPAN"), NameT("MALI_CONFIG_UNKNOWN") }

CardEquations == {BinT("add", "+", a, b) : a, b \in CardTerms}

\* The databases checked: the hardware counters, a derived counter with one
\* of the equations under a checked or an excepted name, and, if nested, a
\* derived counter that refers to it.
CardDatabase(equation, name, nested) ==
    CardNatives
    \o << CounterInfo(name, 22, None, <<>>, "G3", "q", "Name Q", NOVICE,
                      equation, {"g1"}) >>
    \o (IF nested
        THEN << CounterInfo("MaliR", 23, None, <<>>, "G3", "r", "Name R",
                            NOVICE, BinT("mul", "*", NameT(name), NumT("2")),
                            {"g1"}) >>
        ELSE <<>>)

CardDatabases ==
    { CardDatabase(e, n, b) :
        e \in CardEquations, n \in {"MaliQ", "MaliFragOverdraw"},
        b \in BOOLEAN }

CardInit ==
    /\ PPIdle
    /\ pc = "db"
    /\ ct_db \in CardDatabases
    /\ product \in Products
    /\ lark_none_ok \in BOOLEAN
    /\ NoViews
    /\ ToolsIdle

\* cnt_db = CounterDatabase.get_indexed_view_for(gpu)
CardGetIndexedViewFor ==
    /\ pc = "db"
    /\ LET b == IndexedViewFromDb("Mali-G1", product, CardLayout, ct_db)
           r == resolve_equations(b.view, b.objects, lark_none_ok)
       IN  /\ view' = b.view
           /\ objects' = r.objects
           /\ resolved' = [resolved EXCEPT
                  !.view = IF r.returned THEN "returned" ELSE "raised",
                  !.last = "view"]
           /\ pc' = IF r.returned THEN "indexed" ELSE "raised"
    /\ UNCHANGED <<toolVars, ppVars, dbVars, flt, args, svVars>>

\* errors += validate_derived_equation_cardinality(gpu)
ValidateCardinality ==
    /\ pc = "indexed"
    /\ card_run' = validate_derived_equation_cardinality(view, objects)
    /\ pc' = IF card_run'.ok THEN "validated" ELSE "raised"
    /\ UNCHANGED <<extVars, idsVars, layVars, docVars, mainVars, ppVars, dbVars, objects, view, resolved,
                   flt, args, svVars>>

CardNext == CardGetIndexedViewFor \/ ValidateCardinality

SpecCard == CardInit /\ [][CardNext]_vars

\* ---- the validator: validate_string_resolve ----

\* A {{...}} reference of a documentation string: its type, the separator
\* written after the type, the name, and the postfix.
DocRefs ==
    [ type : {"K", "C", "X"},
      sep : {<<":">>, <<":", ":">>},
      name : {"GPU_NAME", "MaliA", "MaliZ"},
      part : {<<>>, <<".", "equation">>, <<".", "bad">>} ]

\* match.group(1) of a reference
Matched(ref) == <<ref.type>> \o ref.sep \o <<ref.name>> \o ref.part

\* The references of the documentation strings checked.
DocStrings == UNION {[1..n -> DocRefs] : n \in 0..MaxDocRefs}

\* The counter databases of the views checked: one with MaliA, one without.
DocDatabases ==
    { SubSeqOf(CounterPool, {1, 2, 4}, 1), SubSeqOf(CounterPool, {2}, 1) }

DocInit ==
    /\ PPIdle
    /\ pc = "db"
    /\ ct_db \in DocDatabases
    /\ product = ProductInfo("g1", {})
    /\ lark_none_ok = TRUE
    /\ NoViews
    /\ IdsIdle /\ LayIdle /\ CardIdle /\ MainIdle /\ ExtIdle
    /\ doc_refs \in DocStrings
    /\ doc_run = NotCalled

\* errors += validate_string_resolve(cnt_db, gpu, cname, docs, source)
ValidateStringResolve ==
    /\ pc = "indexed"
    /\ doc_run' = Return(validate_string_resolve(
                             view, [i \in 1..Len(doc_refs) |->
                                       Matched(doc_refs[i])], 1))
    /\ pc' = "validated"
    /\ UNCHANGED <<extVars, idsVars, layVars, cardVars, mainVars, doc_refs, ppVars, dbVars,
                   objects, view, resolved, flt, args, svVars>>

DocNext == GetIndexedViewFor \/ ValidateStringResolve

SpecDocs == DocInit /\ [][DocNext]_vars

\* ---- the validator: main ----

\* The checks of main, in the order main calls them: the checks of the full
\* database, then the checks of each database key.  The products of the
\* databases checked have one database key, g1.
MainChecks ==
    << "validate_whitespace", "validate_absence_of_resolves",
       "validate_vulkan_string_lengths", "validate_stable_ids",
       "validate_gpu_fields", "validate_units_fields",
       "validate_derived_equation_fields", "validate_semantic_layout",
       "validate_semantic_info", "validate_name_uniqueness",
       "validate_source_name_consistency",
       "validate_derived_equation_resolve",
       "validate_derived_equation_cardinality",
       "validate_counter_documentation_resolve",
       "validate_semantic_documentation_resolve" >>

\* The checks that read only the text and units fields of the database,
\* which the model carries as the error count each of them returns.
TextChecks ==
    { "validate_whitespace", "validate_absence_of_resolves",
      "validate_vulkan_string_lengths", "validate_units_fields" }

\* The equations of the derived counter of the databases checked.
MainEquations ==
    { BinT("add", "+", NameT("MaliA"), NameT("MaliC")),
      BinT("add", "+", Scaled("MaliA", "MALI_CONFIG_SHADER_CORE_COUNT"),
                       Scaled("MaliC", "MALI_CONFIG_L2_CACHE_COUNT")),
      BinT("add", "+", NameT("MaliA"), NameT("MaliA")),
      BinT("add", "+", NameT("MaliA"), NameT("MALI_CONFIG_UNKNOWN")),
      BinT("add", "+", NameT("MaliA"), NameT("MaliN")),
      BinT("add", "+", NameT("MaliT"), NameT("MALI_CONFIG_TIME_SPAN")) }

\* The database without the stable IDs of the entries at the positions S.
WithoutIds(cnt_db, S) ==
    [i \in 1..Len(cnt_db) |->
        IF i \in S THEN [cnt_db[i] EXCEPT !.stable_id = NoId] ELSE cnt_db[i]]

Derived(cnt_db) == {i \in 1..Len(cnt_db) : cnt_db[i].source_name = None}

\* The databases main is run on: the hardware counters MaliA, MaliB, MaliC
\* and MaliT, with or without the counter MaliN that has no hardware block,
\* a derived counter, with or without a counter that refers to it; with all
\* stable IDs, with none, or with none on the derived counters.
MainDatabases ==
    LET natives(with_n) ==
            << CardNatives[1], CounterPool[2], CardNatives[2],
               CardNatives[3] >>
            \o (IF with_n THEN << CardNatives[4] >> ELSE <<>>)
        full(e, with_n, nested) ==
            natives(with_n)
            \o SubSeq(CardDatabase(e, "MaliQ", nested), 5,
                      Len(CardDatabase(e, "MaliQ", nested)))
    IN  UNION {
          { full(e, n, b),
            WithoutIds(full(e, n, b), 1..Len(full(e, n, b))),
            WithoutIds(full(e, n, b), Derived(full(e, n, b))) } :
          e \in MainEquations, n \in BOOLEAN, b \in BOOLEAN }

\* The layout that lists the counters of the database: the groups G1 and G2
\* in the section S1, the group G3 in the section S2.
LayoutFor(cnt_db) ==
    LET names(g) ==
            LET in_g == SelectSeq(cnt_db, LAMBDA c : c.group_name = g)
            IN  [i \in 1..Len(in_g) |-> in_g[i].group_human_name]
    IN  << SectionLayout("S1", << GroupLayout("G1", names("G1")),
                                  GroupLayout("G2", names("G2")) >>),
           SectionLayout("S2", << GroupLayout("G3", names("G3")) >>) >>

MainInit ==
    /\ PPIdle
    /\ pc = "idle"
    /\ ct_db \in MainDatabases
    /\ product = ProductInfo("g1", {})
    /\ lark_none_ok = TRUE
    /\ NoViews
    /\ IdsIdle /\ LayIdle /\ CardIdle /\ DocIdle /\ ExtIdle
    /\ main_pc = 1
    /\ main_errors = 0
    /\ main_ran = <<>>
    /\ main_exit = "running"
    /\ main_text \in [TextChecks -> 0..1]

\* errors += check(): the count is added when the check returns; when it
\* raises, the exception leaves main and the interpreter prints a traceback.
CallCheck(name, r) ==
    /\ main_exit = "running"
    /\ main_pc <= Len(MainChecks)
    /\ MainChecks[main_pc] = name
    /\ main_ran' = Append(main_ran, name)
    /\ main_errors' = IF r.ok THEN main_errors + r.value ELSE main_errors
    /\ main_pc' = IF r.ok THEN main_pc + 1 ELSE main_pc
    /\ main_exit' = IF r.ok THEN "running" ELSE "traceback"
    /\ UNCHANGED <<extVars, main_text, ppVars, idsVars, layVars, cardVars, docVars>>

\* A check of the full database that leaves the database as it is.
DatabaseCheck(name, errors) ==
    /\ CallCheck(name, Return(errors))
    /\ UNCHANGED <<dbVars, ivVars, svVars>>

\* errors += validate_whitespace(), validate_absence_of_resolves(),
\* validate_vulkan_string_lengths(), validate_units_fields()
MainTextCheck ==
    \E name \in TextChecks : DatabaseCheck(name, main_text[name])

\* errors += validate_stable_ids(); the database is patched in place
MainStableIds ==
    LET r == validate_stable_ids(ct_db)
    IN  /\ CallCheck("validate_stable_ids",
                     IF r.ok THEN Return(r.errors) ELSE r)
        /\ ct_db' = r.cnt_db
        /\ UNCHANGED <<product, lark_none_ok, ivVars, svVars>>

\* errors += validate_gpu_fields()
MainGpuFields ==
    DatabaseCheck("validate_gpu_fields", validate_gpu_fields(ct_db, {"g1"}))

\* errors += validate_derived_equation_fields()
MainDerivedEquationFields ==
    DatabaseCheck("validate_derived_equation_fields",
                  validate_derived_equation_fields(ct_db))

\* errors += validate_semantic_layout()
MainSemanticLayout ==
    DatabaseCheck("validate_semantic_layout",
                  validate_semantic_layout(ct_db, LayoutFor(ct_db)).errors)

\* errors += validate_semantic_info()
MainSemanticInfo ==
    DatabaseCheck("validate_semantic_info",
                  validate_semantic_info(LayoutFor(ct_db), {"S1", "S2"},
                                         {"G1", "G2", "G3"}))

\* errors += validate_name_uniqueness(gpu)
MainNameUniqueness ==
    DatabaseCheck("validate_name_uniqueness",
                  validate_name_uniqueness(ct_db, "g1"))

\* The checks of a database key that get the indexed view of the key.
ViewChecks ==
    { "validate_source_name_consistency",
      "validate_derived_equation_resolve",
      "validate_derived_equation_cardinality",
      "validate_counter_documentation_resolve",
      "validate_semantic_documentation_resolve" }

\* cnt_db = CounterDatabase.get_indexed_view_for(gpu), in a check, when the
\* cache has no view of the key: the view is built, resolved and cached;
\* an exception of resolve_equations leaves the check and main.
MainGetIndexedViewFor ==
    /\ main_exit = "running"
    /\ main_pc <= Len(MainChecks)
    /\ MainChecks[main_pc] \in ViewChecks
    /\ view = NoView
    /\ LET b == IndexedViewFromDb("g1", product, CardLayout, ct_db)
           r == resolve_equations(b.view, b.objects, lark_none_ok)
       IN  /\ view' = IF r.returned THEN b.view ELSE NoView
           /\ objects' = r.objects
           /\ resolved' = [resolved EXCEPT
                  !.view = IF r.returned THEN "returned" ELSE "raised",
                  !.last = "view"]
           /\ main_exit' = IF r.returned THEN "running" ELSE "traceback"
           /\ main_ran' = IF r.returned THEN main_ran
                          ELSE Append(main_ran, MainChecks[main_pc])
    /\ UNCHANGED <<main_pc, main_errors, main_text, ppVars, dbVars, pc, flt,
                   args, svVars, idsVars, layVars, cardVars, docVars,
                   extVars>>

\* A check of one database key, on the cached indexed view of the key.
ViewCheck(name, checked) ==
    /\ view # NoView
    /\ CallCheck(name, checked)
    /\ UNCHANGED <<dbVars, ivVars>>

\* errors += validate_source_name_consistency(gpu)
MainSourceNameConsistency ==
    /\ ViewCheck("validate_source_name_consistency",
           Return(validate_source_name_consistency(CardLayout, view,
                                                   objects)))
    /\ UNCHANGED svVars

\* errors += validate_derived_equation_resolve(gpu)
MainDerivedEquationResolve ==
    /\ ViewCheck("validate_derived_equation_resolve",
           Return(validate_derived_equation_resolve(view, objects)))
    /\ UNCHANGED svVars

\* errors += validate_derived_equation_cardinality(gpu)
MainDerivedEquationCardinality ==
    /\ LET r == validate_derived_equation_cardinality(view, objects)
       IN  ViewCheck("validate_derived_equation_cardinality",
               IF r.ok THEN Return(r.value.errors) ELSE r)
    /\ UNCHANGED svVars

\* errors += validate_counter_documentation_resolve(gpu); the descriptions
\* of the databases checked hold no reference
MainCounterDocumentationResolve ==
    /\ ViewCheck("validate_counter_documentation_resolve",
           Return(validate_string_resolve(view, <<>>, 1)))
    /\ UNCHANGED svVars

\* errors += validate_semantic_documentation_resolve(gpu): the check gets
\* the indexed view and the semantic view of the key
MainSemanticDocumentationResolve ==
    LET s == SemanticViewFromDb(product.database_key, LayoutFor(ct_db),
                 InfoDb("", DefaultOnly), InfoDb("", DefaultOnly), view)
    IN  /\ ViewCheck("validate_semantic_documentation_resolve",
               IF s.ok THEN Return(validate_string_resolve(view, <<>>, 1))
               ELSE s)
        /\ sem_view' = s
        /\ UNCHANGED <<info_db, hw_view, hw_flt, sem_flt>>

\* if errors > 0: return 1; return 0
MainReturn ==
    /\ main_exit = "running"
    /\ main_pc = Len(MainChecks) + 1
    /\ main_exit' = IF main_errors > 0 THEN "return 1" ELSE "return 0"
    /\ UNCHANGED <<main_pc, main_errors, main_ran, main_text, libVars,
                   idsVars, layVars, cardVars, docVars, extVars>>

MainNext ==
    \/ MainTextCheck
    \/ MainStableIds
    \/ MainGpuFields
    \/ MainDerivedEquationFields
    \/ MainSemanticLayout
    \/ MainSemanticInfo
    \/ MainNameUniqueness
    \/ MainGetIndexedViewFor
    \/ MainSourceNameConsistency
    \/ MainDerivedEquationResolve
    \/ MainDerivedEquationCardinality
    \/ MainCounterDocumentationResolve
    \/ MainSemanticDocumentationResolve
    \/ MainReturn

SpecMain == MainInit /\ [][MainNext]_vars

\* ---- CounterDatabase: the caches of the per-product views ----

\* The number of view objects a run of the cache model creates.
MaxViews == 3

\* The names the getters are called with: a product name, the database key
\* of the product, and a name of no product.
CacheNames == {"Mali-G1", "g1", "Mali-Z"}

Getters ==
    {"get_indexed_view_for", "get_hardware_view_for", "get_semantic_view_for"}

\* The counter databases the views are built from.
CacheDatabases ==
    { SubSeqOf(CounterPool, S, 1) : S \in {{1, 2, 3, 4}, {1, 3}, {2, 4}} }

\* No getter has returned a view since the caches were last empty.
NoPrevious == [g \in Getters |-> [n \in CacheNames |-> NoRef]]

\* g_product_info_db: one product, Mali-G1.
ProductInfosOf(p) == <<[key |-> "Mali-G1", val |-> p]>>

\* ProductInfos.get_gpu: the product of that name, else the first product of
\* that database key, else KeyError.
get_gpu(products, name) ==
    IF name \in DictKeys(products) THEN Return(DictGet(products, name))
    ELSE LET hits == {i \in 1..Len(products) :
                         products[i].val.database_key = name}
         IN  IF hits # {}
             THEN Return(products[CHOOSE i \in hits :
                                     \A j \in hits : i <= j].val)
             ELSE Raise("KeyError", <<"Unknown GPU product", name>>)

\* A view object of the heap: its class, the name it was built for, the
\* number of calls of resolve_equations on it, and for a hardware or
\* semantic view the indexed view it was built from.
ViewObject(class, product_name, resolve_calls, i_view) ==
    [class |-> class, product_name |-> product_name,
     resolve_calls |-> resolve_calls, i_view |-> i_view]

\* The result of a getter that raised, or returned the view object view.
GetterResult(res, c) == [ret |-> res, cache |-> c]

\* A cache insert that stores nothing.
CacheInsertNothing(d, product_name, v) == d

\* cls.g_iview_db[product_name] = view, and the same of the other caches
CacheInsert(d, product_name, v) == DictPut(d, product_name, v)

\* CounterDatabase.clear_cache
clear_cache(c) ==
    [c EXCEPT !.g_iview_db = EmptyDict, !.g_hview_db = EmptyDict,
              !.g_sview_db = EmptyDict]

\* CounterDatabase.get_indexed_view_for
get_indexed_view_for(c, db, product_name) ==
    IF product_name \in DictKeys(c.g_iview_db)
    THEN GetterResult(Return(DictGet(c.g_iview_db, product_name)), c)
    ELSE LET pd_info == get_gpu(db.products, product_name)
         IN  IF ~pd_info.ok THEN GetterResult(pd_info, c)
             ELSE LET b == IndexedViewFromDb(product_name, pd_info.value,
                                             HardwareLayout, db.counters)
                      r == resolve_equations(b.view, b.objects, db.none_ok)
                      heap == Append(c.heap,
                                  ViewObject("IndexedView", product_name, 1,
                                             NoRef))
                  IN  IF ~r.returned
                      THEN GetterResult(
                               Raise("VisitError", <<"resolve_equations">>),
                               [c EXCEPT !.heap = heap])
                      ELSE GetterResult(Return(Len(heap)),
                               [c EXCEPT !.heap = heap,
                                         !.g_iview_db = CacheInsert(@,
                                             product_name, Len(heap))])

\* The indexed view of a view object, as from_db builds it.
ContentsOf(db, product_name) ==
    IndexedViewFromDb(product_name, get_gpu(db.products, product_name).value,
                      HardwareLayout, db.counters).view

\* get_hardware_view_for on a cache miss, after the call of
\* get_indexed_view_for has ended as i_view: HardwareView.from_db and the
\* cache insert.
HardwareViewMiss(i_view, db, product_name) ==
    IF ~i_view.ret.ok THEN i_view
    ELSE LET h_view == HardwareViewFromDb(HardwareLayout,
                                          ContentsOf(db, product_name))
         IN  IF ~h_view.ok THEN GetterResult(h_view, i_view.cache)
             ELSE GetterResult(Return(Len(i_view.cache.heap) + 1),
                    [i_view.cache EXCEPT
                       !.heap = Append(@, ViewObject("HardwareView",
                                    product_name, 0, i_view.ret.value)),
                       !.g_hview_db = CacheInsert(@, product_name,
                                          Len(i_view.cache.heap) + 1)])

\* CounterDatabase.get_hardware_view_for
get_hardware_view_for(c, db, product_name) ==
    IF product_name \in DictKeys(c.g_hview_db)
    THEN GetterResult(Return(DictGet(c.g_hview_db, product_name)), c)
    ELSE IF ~get_gpu(db.products, product_name).ok
    THEN GetterResult(get_gpu(db.products, product_name), c)
    ELSE HardwareViewMiss(get_indexed_view_for(c, db, product_name), db,
                          product_name)

\* get_semantic_view_for on a cache miss, after the call of
\* get_indexed_view_for has ended as i_view: SemanticView.from_db and the
\* cache insert.
SemanticViewMiss(i_view, db, name) ==
    IF ~i_view.ret.ok THEN i_view
    ELSE LET s_view == SemanticViewFromDb(
                           get_gpu(db.products, name).value.database_key,
                           SemanticLayout, db.info, db.info,
                           ContentsOf(db, name))
         IN  IF ~s_view.ok THEN GetterResult(s_view, i_view.cache)
             ELSE GetterResult(Return(Len(i_view.cache.heap) + 1),
                    [i_view.cache EXCEPT
                       !.heap = Append(@, ViewObject("SemanticView", name, 0,
                                                     i_view.ret.value)),
                       !.g_sview_db = CacheInsert(@, name,
                                          Len(i_view.cache.heap) + 1)])

\* CounterDatabase.get_semantic_view_for
get_semantic_view_for(c, db, name) ==
    IF name \in DictKeys(c.g_sview_db)
    THEN GetterResult(Return(DictGet(c.g_sview_db, name)), c)
    ELSE SemanticViewMiss(get_indexed_view_for(c, db, name), db, name)

\* The caches and the view objects of the state.
CacheState ==
    [g_iview_db |-> g_iview_db, g_hview_db |-> g_hview_db,
     g_sview_db |-> g_sview_db, heap |-> cache_heap]

\* The component databases of the state.
ComponentDbs ==
    [products |-> ProductInfosOf(product), counters |-> ct_db,
     none_ok |-> lark_none_ok, info |-> info_db]

CacheInit ==
    /\ PPIdle
    /\ pc = "idle"
    /\ ct_db \in CacheDatabases
    /\ product = ProductInfo("g1", {})
    /\ lark_none_ok \in BOOLEAN
    /\ objects = <<>>
    /\ view = NoView
    /\ resolved = [view |-> "no", flt |-> "no", last |-> "none"]
    /\ flt = NoView
    /\ args = NoArgs
    /\ info_db \in {InfoDb("", DefaultOnly), InfoDb("G1", TwoDefaults)}
    /\ hw_view = NotCalled
    /\ hw_flt = NotCalled
    /\ sem_view = NotCalled
    /\ sem_flt = NotCalled
    /\ IdsIdle /\ LayIdle /\ CardIdle /\ DocIdle /\ MainIdle
    /\ CacheIdle /\ ExprIdle /\ XmlIdle /\ NamesIdle

\* A call of a getter: the caches and the heap as the call leaves them, the
\* result of the call, and the view the last get of the name returned.
CallGetter(getter, name, r) ==
    /\ Len(r.cache.heap) <= MaxViews
    /\ g_iview_db' = r.cache.g_iview_db
    /\ g_hview_db' = r.cache.g_hview_db
    /\ g_sview_db' = r.cache.g_sview_db
    /\ cache_heap' = r.cache.heap
    /\ cache_ret' = [op |-> getter, name |-> name, ret |-> r.ret,
                     built |-> Len(r.cache.heap) - Len(cache_heap)]
    /\ cache_prev' = IF r.ret.ok
                     THEN [cache_prev EXCEPT ![getter][name] = r.ret.value]
                     ELSE cache_prev
    /\ UNCHANGED <<libVars, idsVars, layVars, cardVars, docVars, mainVars,
                   exprVars, xmlVars, namesVars>>

CacheGetIndexedViewFor ==
    \E name \in CacheNames :
        \E r \in {get_indexed_view_for(CacheState, ComponentDbs, name)} :
            CallGetter("get_indexed_view_for", name, r)

CacheGetHardwareViewFor ==
    \E name \in CacheNames :
        \E r \in {get_hardware_view_for(CacheState, ComponentDbs, name)} :
            CallGetter("get_hardware_view_for", name, r)

CacheGetSemanticViewFor ==
    \E name \in CacheNames :
        \E r \in {get_semantic_view_for(CacheState, ComponentDbs, name)} :
            CallGetter("get_semantic_view_for", name, r)

CacheClear ==
    /\ g_iview_db' = clear_cache(CacheState).g_iview_db
    /\ g_hview_db' = clear_cache(CacheState).g_hview_db
    /\ g_sview_db' = clear_cache(CacheState).g_sview_db
    /\ cache_ret' = [op |-> "clear_cache", name |-> None,
                     ret |-> Return(None), built |-> 0]
    /\ cache_prev' = NoPrevious
    /\ UNCHANGED <<cache_heap, libVars, idsVars, layVars, cardVars, docVars,
                   mainVars, exprVars, xmlVars, namesVars>>

CacheNext ==
    \/ CacheGetIndexedViewFor
    \/ CacheGetHardwareViewFor
    \/ CacheGetSemanticViewFor
    \/ CacheClear

SpecCache == CacheInit /\ [][CacheNext]_vars

\* ---- the rendering entry points of equationutils ----

\* The units of the counters rendered.
Units == {"percent", "bytes", "cycles"}

\* str(ast) of the value the pretty printer returns.
StrOf(v) == v.string

\* f"max(min({equation}, 100), 0)"
Clamp(equation) ==
    <<"max", "(", "min", "(">> \o equation
        \o <<",", "100", ")", ",", "0", ")">>

\* A clamp that is applied whatever the unit.
ClampAlways(unit, equation) == Clamp(equation)

\* if counter.unit == 'percent': equation = f"max(min({equation}, 100), 0)"
ClampPercent(unit, equation) ==
    IF unit = "percent" THEN Clamp(equation) ELSE equation

\* EquationHardwareTransformer.NAME
HardwareNAME(index_view, objs, token) ==
    IF get_by_machine_name(index_view, token) = NoRef THEN NameT(token)
    ELSE NameT(objs[get_by_machine_name(index_view, token)].source_name)

\* EquationHardwareTransformer(index_view).transform(t)
RECURSIVE HardwareTransform(_, _, _)
HardwareTransform(index_view, objs, t) ==
    CASE t.k = "name" -> HardwareNAME(index_view, objs, t.v)
      [] t.k \in {"num", "refnone"} -> t
      [] t.k = "ref" -> RefT(HardwareTransform(index_view, objs, t.t))
      [] t.k \in {"add", "mul"} ->
            BinT(t.k, t.op, HardwareTransform(index_view, objs, t.a),
                 HardwareTransform(index_view, objs, t.b))
      [] t.k = "fn" ->
            FnT(t.f, [i \in 1..Len(t.args) |->
                        HardwareTransform(index_view, objs, t.args[i])])

\* re.split and the capitalisation of mangle_variable_name, on the group
\* names of the counters that occur in the model.
StreamlineNames ==
    { <<"G1", "a", "$MaliG1A">>, <<"G1", "b", "$MaliG1B">>,
      <<"G2", "c", "$MaliG2C">>, <<"G2", "i", "$MaliG2I">>,
      <<"G1", "u", "$MaliG1U">> }

\* EquationStreamlineTransformer.mangle_variable_name
mangle_variable_name(counter) ==
    IF is_derived(counter)
    THEN Raise("AssertionError", <<"not counter.is_derived()">>)
    ELSE Return(NameT((CHOOSE p \in StreamlineNames :
                          /\ p[1] = counter.group_name
                          /\ p[2] = counter.group_human_name)[3]))

\* EquationStreamlineTransformer.mangle_constant_name (counter_names)
StreamlineConstants ==
    { <<"MALI_CONFIG_TIME_SPAN", "$ZOOM">>,
      <<"MALI_CONFIG_L2_CACHE_COUNT", "$MaliConstantsL2SliceCount">>,
      <<"MALI_CONFIG_SHADER_CORE_COUNT", "$MaliConstantsShaderCoreCount">> }

\* EquationStreamlineTransformer.mangle_constant_name
mangle_constant_name(counter) ==
    IF \E p \in StreamlineConstants : p[1] = counter
    THEN Return(NameT((CHOOSE p \in StreamlineConstants :
                          p[1] = counter)[2]))
    ELSE Raise("KeyError", <<counter>>)

\* EquationStreamlineTransformer.NAME
StreamlineNAME(index_view, objs, token) ==
    IF MatchesConstantPattern(token) THEN mangle_constant_name(token)
    ELSE IF get_by_machine_name(index_view, token) = NoRef
    THEN Raise("AssertionError", <<"counter">>)
    ELSE mangle_variable_name(objs[get_by_machine_name(index_view, token)])

\* EquationStreamlineTransformer(index_view).transform(t): the renamed tree,
\* or the first exception of a callback.
RECURSIVE StreamlineTransform(_, _, _)

\* The transformed arguments of a function call, left to right.
RECURSIVE StreamlineArgs(_, _, _, _, _)
StreamlineArgs(index_view, objs, params, i, acc) ==
    IF i > Len(params) THEN Return(acc)
    ELSE IF ~StreamlineTransform(index_view, objs, params[i]).ok
    THEN StreamlineTransform(index_view, objs, params[i])
    ELSE StreamlineArgs(index_view, objs, params, i + 1,
             Append(acc, StreamlineTransform(index_view, objs,
                                             params[i]).value))

\* The node of rule k and operator op over the transformed operands.
StreamlineNode(k, op, a, b) ==
    IF ~a.ok THEN a
    ELSE IF ~b.ok THEN b
    ELSE Return(BinT(k, op, a.value, b.value))

\* The reference to the transformed tree of a derived counter.
StreamlineRef(r) == IF r.ok THEN Return(RefT(r.value)) ELSE r

\* The call of f on the transformed arguments.
StreamlineCall(f, r) == IF r.ok THEN Return(FnT(f, r.value)) ELSE r

StreamlineTransform(index_view, objs, t) ==
    CASE t.k = "name" ->
            CallUserfuncToken(StreamlineNAME(index_view, objs, t.v))
      [] t.k \in {"num", "refnone"} -> Return(t)
      [] t.k = "ref" ->
            StreamlineRef(StreamlineTransform(index_view, objs, t.t))
      [] t.k \in {"add", "mul"} ->
            StreamlineNode(t.k, t.op,
                StreamlineTransform(index_view, objs, t.a),
                StreamlineTransform(index_view, objs, t.b))
      [] t.k = "fn" ->
            StreamlineCall(t.f,
                StreamlineArgs(index_view, objs, t.args, 1, <<>>))

\* equation = str(ast) of the pretty printed ast, and the clamp of a
\* percentage; an exception of the pretty printer leaves the entry point.
Rendered(ast, unit) ==
    IF ast.kind = "raise" THEN Raise("VisitError", ast.string)
    ELSE Return(ClampPercent(unit, StrOf(ast)))

\* get_machine_name_expression
get_machine_name_expression(index_view, counter, unit) ==
    IF counter.equation_ast_resolved = NoEquation
    THEN Raise("AssertionError", <<"counter.equation_ast_resolved">>)
    ELSE Rendered(PrettyPrint(counter.equation_ast_resolved), unit)

\* get_source_name_expression
get_source_name_expression(index_view, objs, counter, unit) ==
    IF counter.equation_ast_resolved = NoEquation
    THEN Raise("AssertionError", <<"counter.equation_ast_resolved">>)
    ELSE Rendered(PrettyPrint(HardwareTransform(index_view, objs,
                                  counter.equation_ast_resolved)), unit)

\* The tree get_streamline_expression renders: the parsed machine name of a
\* hardware counter, the resolved equation of a derived counter.
StreamlineAst(counter) ==
    IF ~is_derived(counter) THEN NameT(counter.machine_name)
    ELSE counter.equation_ast_resolved

\* The pretty print and the clamp of get_streamline_expression on the
\* transformed tree r.
StreamlineRendered(r, unit) ==
    IF ~r.ok THEN r ELSE Rendered(PrettyPrint(r.value), unit)

\* get_streamline_expression; a derived counter without a resolved equation
\* hands None to the transformers.
get_streamline_expression(index_view, objs, counter, unit, none_ok) ==
    IF StreamlineAst(counter) = NoEquation
    THEN IF none_ok THEN Return(ClampPercent(unit, <<"None">>))
         ELSE Raise("AttributeError", <<"NoneType">>)
    ELSE StreamlineRendered(
             StreamlineTransform(index_view, objs, StreamlineAst(counter)),
             unit)

\* equation_ast_to_string, as a call that returns the string or raises.
equation_ast_to_string(ast) ==
    IF PrettyPrint(ast).kind = "raise"
    THEN Raise("VisitError", PrettyPrint(ast).string)
    ELSE Return(StrOf(PrettyPrint(ast)))

\* The equations of the derived counter rendered.
ExprEquations ==
    { NameT("MaliA"),
      BinT("add", "+", NameT("MaliA"), NameT("MaliB")),
      BinT("mul", "/", NameT("MaliA"), NameT("MALI_CONFIG_SHADER_CORE_COUNT")),
      BinT("mul", "*", NameT("MaliA"), NameT("MALI_CONFIG_UNKNOWN")),
      BinT("mul", "*", BinT("add", "-", NameT("MaliA"), NameT("MaliB")),
           NameT("MaliC")),
      BinT("mul", "/", NumT("1"), NumT("2")),
      FnT("max", << FnT("min", <<NameT("MaliA"), NumT("100")>>),
                    NumT("0") >>) }

\* The databases rendered: three hardware counters, a derived counter with
\* one of the equations, and possibly a derived counter that refers to it or
\* a derived counter without an equation.
ExprDatabases ==
    { SubSeqOf(CounterPool, {1, 2, 3}, 1)
        \o << CounterInfo("MaliQ", 22, None, <<>>, "G3", "q", "Name Q",
                          NOVICE, e, {"g1"}) >>
        \o x :
        e \in ExprEquations,
        x \in { <<>>,
                << CounterInfo("MaliR", 23, None, <<>>, "G3", "r", "Name R",
                       NOVICE, BinT("mul", "*", NameT("MaliQ"), NumT("2")),
                       {"g1"}) >>,
                SubSeqOf(CounterPool, {7}, 1) } }

ExprInit ==
    /\ PPIdle
    /\ pc = "db"
    /\ ct_db \in ExprDatabases
    /\ product \in Products
    /\ lark_none_ok \in BOOLEAN
    /\ NoViews
    /\ ToolsIdle

\* A call of an entry point on a counter of the view.
ExprCall(fn, counter, unit, ret) ==
    /\ expr_call' = [fn |-> fn, counter |-> counter, unit |-> unit,
                     ret |-> ret]
    /\ UNCHANGED <<libVars, idsVars, layVars, cardVars, docVars, mainVars,
                   cacheVars, xmlVars, namesVars>>

\* The CounterView objects of the view.
CountersOf(index_view) ==
    {index_view.by_stable_id[i].val : i \in 1..Len(index_view.by_stable_id)}

GetMachineNameExpression ==
    /\ pc = "indexed"
    /\ \E counter \in CountersOf(view), unit \in Units :
             ExprCall("get_machine_name_expression", counter, unit,
                      get_machine_name_expression(view, objects[counter], unit))

GetSourceNameExpression ==
    /\ pc = "indexed"
    /\ \E counter \in CountersOf(view), unit \in Units :
             ExprCall("get_source_name_expression", counter, unit,
                      get_source_name_expression(view, objects, objects[counter],
                                                 unit))

GetStreamlineExpression ==
    /\ pc = "indexed"
    /\ \E counter \in CountersOf(view), unit \in Units :
             ExprCall("get_streamline_expression", counter, unit,
                      get_streamline_expression(view, objects, objects[counter],
                                                unit, lark_none_ok))

\* equation_ast_to_string on the resolved equation of a counter
EquationAstToStringCall ==
    /\ pc = "indexed"
    /\ \E counter \in CountersOf(view), unit \in Units :
             /\ objects[counter].equation_ast_resolved # NoEquation
             /\ ExprCall("equation_ast_to_string", counter, unit,
                    equation_ast_to_string(objects[counter].equation_ast_resolved))

ExprNext ==
    \/ GetIndexedViewFor
    \/ GetMachineNameExpression
    \/ GetSourceNameExpression
    \/ GetStreamlineExpression
    \/ EquationAstToStringCall

SpecExpr == ExprInit /\ [][ExprNext]_vars

\* ---- ProductInfos: to_xml_str and from_xml_str ----

\* A string, or None, that Python takes as true.
Truthy(s) == s # None /\ s # ""

\* An XML element with a text and no children.
Element(tag, text) == [tag |-> tag, text |-> text, children |-> <<>>]

\* An XML element with children and no text.
Parent(tag, children) == [tag |-> tag, text |-> None, children |-> children]

\* root.findall(tag): the children of that tag, in document order.
RECURSIVE FindAllFrom(_, _, _)
FindAllFrom(root, tag, i) ==
    IF i > Len(root.children) THEN <<>>
    ELSE (IF root.children[i].tag = tag THEN <<root.children[i]>> ELSE <<>>)
         \o FindAllFrom(root, tag, i + 1)

FindAll(root, tag) == FindAllFrom(root, tag, 1)

\* The texts of the elements of a list.
TextsOf(elements) == [i \in 1..Len(elements) |-> elements[i].text]

\* xmlutils.get_node_str: the asserts of the helper hold.
HasNodeStr(root, tag) ==
    FindAll(root, tag) # <<>> /\ FindAll(root, tag)[1].text # None

\* xmlutils.get_node_str
get_node_str(root, tag) == FindAll(root, tag)[1].text

\* xmlutils.get_node_opt_str: the assert of the helper holds.
HasOptStr(root, tag) ==
    FindAll(root, tag) = <<>> \/ FindAll(root, tag)[1].text # None

\* xmlutils.get_node_opt_str
get_node_opt_str(root, tag) ==
    IF FindAll(root, tag) = <<>> THEN None ELSE FindAll(root, tag)[1].text

\* et.fromstring(et.tostring(node)): the tree of the document text; an
\* element of empty text is read back as an element without text.
RECURSIVE EtParsed(_)
EtParsed(node) ==
    [tag |-> node.tag,
     text |-> IF node.text = "" THEN None ELSE node.text,
     children |-> [i \in 1..Len(node.children) |->
                      EtParsed(node.children[i])]]

\* f'0x{gpu_id:04x}' and int(text, 16), on the IDs of the model.
IdTexts == { <<1, "0x0001">>, <<2, "0x0002">> }

HexOf(gpu_id) == (CHOOSE p \in IdTexts : p[1] = gpu_id)[2]

IntOfHex(text) == (CHOOSE p \in IdTexts : p[2] = text)[1]

\* str(release_year) and int(raw_year), on the years of the model.
YearTexts == { <<"y2019", "2019">>, <<"y2023", "2023">> }

StrOfYear(year) == (CHOOSE p \in YearTexts : p[1] = year)[2]

IntOfYear(text) == (CHOOSE p \in YearTexts : p[2] = text)[1]

\* ProductArchitecture: the enum values and their XML strings.
ArchitectureTexts ==
    { <<"BIFROST", "Bifrost">>, <<"VALHALL", "Valhall">>,
      <<"FIFTH_GENERATION", "5th Generation">> }

\* ProductArchitecture.to_xml
ProductArchitecture_to_xml(value) ==
    (CHOOSE p \in ArchitectureTexts : p[1] = value)[2]

\* ProductArchitecture.from_xml
ProductArchitecture_from_xml(value) ==
    (CHOOSE p \in ArchitectureTexts : p[2] = value)[1]

\* ProductVisibility: the enum values and their XML strings.
VisibilityTexts == { <<"PUBLIC", "Public">>, <<"CONFIDENTIAL", "Confidential">> }

\* ProductVisibility.to_xml
ProductVisibility_to_xml(value) ==
    (CHOOSE p \in VisibilityTexts : p[1] = value)[2]

\* ProductVisibility.from_xml
ProductVisibility_from_xml(value) ==
    (CHOOSE p \in VisibilityTexts : p[2] = value)[1]

\* ProductInfo.__init__
ProductInfo_init(ids, names, release_year, architecture, visibility) ==
    [ ids |-> ids, names |-> names, release_year |-> release_year,
      architecture |-> architecture, visibility |-> visibility,
      document_name |-> names[1], document_name_indirect |-> None,
      database_key |-> names[1], features |-> <<>>,
      engineering_name |-> None, project_name |-> None,
      architecture_branch |-> None ]

\* An element of ProductInfo.to_xml that is written under a condition.
Optional(written, element) == IF written THEN <<element>> ELSE <<>>

\* ProductInfo.to_xml: the ProductInfo node added to the parent.
ProductInfo_to_xml(self) ==
    Parent("ProductInfo",
        [i \in 1..Len(self.ids) |-> Element("Id", HexOf(self.ids[i]))]
        \o [i \in 1..Len(self.names) |-> Element("Name", self.names[i])]
        \o Optional(Truthy(self.engineering_name),
                    Element("EngineeringName", self.engineering_name))
        \o Optional(Truthy(self.project_name),
                    Element("ProjectName", self.engineering_name))
        \o << Element("Architecture",
                      ProductArchitecture_to_xml(self.architecture)) >>
        \o Optional(Truthy(self.architecture_branch),
                    Element("ArchitectureBranch", self.architecture_branch))
        \o Optional(Truthy(self.database_key),
                    Element("DatabaseKey", self.database_key))
        \o << Element("Visibility",
                      ProductVisibility_to_xml(self.visibility)),
              Element("ReleaseYear", StrOfYear(self.release_year)) >>
        \o Optional(self.document_name # self.names[1],
                    Element("DocumentName",
                            IF ~Truthy(self.document_name) THEN "False"
                            ELSE self.document_name))
        \o Optional(self.features # <<>>,
                    Parent("Features",
                           [i \in 1..Len(self.features) |->
                               Element("Feature", self.features[i])])))

\* ProductInfo.__eq__
ProductInfo_eq(self, other) ==
    /\ self.ids = other.ids
    /\ self.names = other.names
    /\ self.architecture = other.architecture
    /\ self.visibility = other.visibility
    /\ self.document_name = other.document_name
    /\ self.database_key = other.database_key
    /\ self.features = other.features
    /\ self.engineering_name = other.engineering_name
    /\ self.project_name = other.project_name
    /\ self.architecture_branch = other.architecture_branch

\* The Feature elements of node.findall('Features/Feature').
FeatureElements(node) ==
    IF FindAll(node, "Features") = <<>> THEN <<>>
    ELSE FindAll(FindAll(node, "Features")[1], "Feature")

\* ProductInfo.from_xml, once its asserts have held: the info object.
ProductInfo_parsed(node, info) ==
    [ info EXCEPT
        !.engineering_name = get_node_opt_str(node, "EngineeringName"),
        !.project_name = get_node_opt_str(node, "ProjectName"),
        !.architecture_branch = get_node_opt_str(node, "ArchitectureBranch"),
        !.database_key =
            IF Truthy(get_node_opt_str(node, "DatabaseKey"))
            THEN get_node_opt_str(node, "DatabaseKey") ELSE @,
        !.document_name =
            IF ~Truthy(get_node_opt_str(node, "DocumentName")) THEN @
            ELSE IF get_node_opt_str(node, "DocumentName") = "False"
            THEN None
            ELSE get_node_opt_str(node, "DocumentName"),
        !.features = TextsOf(FeatureElements(node)) ]

\* The optional elements ProductInfo.from_xml reads with get_node_opt_str.
OptionalTags ==
    <<"EngineeringName", "ProjectName", "ArchitectureBranch", "DatabaseKey",
      "DocumentName">>

\* ProductInfo.from_xml
ProductInfo_from_xml(node) ==
    IF node.tag # "ProductInfo"
    THEN Raise("AssertionError", <<"node.tag">>)
    ELSE IF \E i \in 1..Len(node.children) :
               /\ node.children[i].tag \in {"Id", "Name"}
               /\ node.children[i].text = None
    THEN Raise("AssertionError", <<"subnode.text">>)
    ELSE IF \E tag \in {"ReleaseYear", "Architecture", "Visibility"} :
               ~HasNodeStr(node, tag)
    THEN Raise("AssertionError", <<"get_node_str">>)
    ELSE IF FindAll(node, "Id") = <<>>
    THEN Raise("AssertionError", <<"len(ids) > 0">>)
    ELSE IF FindAll(node, "Name") = <<>>
    THEN Raise("IndexError", <<"names[0]">>)
    ELSE IF \E i \in 1..Len(OptionalTags) : ~HasOptStr(node, OptionalTags[i])
    THEN Raise("AssertionError",
               <<"get_node_opt_str",
                 OptionalTags[CHOOSE i \in 1..Len(OptionalTags) :
                    /\ ~HasOptStr(node, OptionalTags[i])
                    /\ \A j \in 1..(i - 1) :
                          HasOptStr(node, OptionalTags[j])]>>)
    ELSE IF \E i \in 1..Len(FeatureElements(node)) :
               FeatureElements(node)[i].text = None
    THEN Raise("AssertionError", <<"feature.text">>)
    ELSE Return(ProductInfo_parsed(node,
             ProductInfo_init(
                 [i \in 1..Len(FindAll(node, "Id")) |->
                     IntOfHex(FindAll(node, "Id")[i].text)],
                 TextsOf(FindAll(node, "Name")),
                 IntOfYear(get_node_str(node, "ReleaseYear")),
                 ProductArchitecture_from_xml(
                     get_node_str(node, "Architecture")),
                 ProductVisibility_from_xml(
                     get_node_str(node, "Visibility")))))

\* infos.products[name] = info for every name of info
RECURSIVE PutNames(_, _, _)
PutNames(products, info, i) ==
    IF i > Len(info.names) THEN products
    ELSE PutNames(DictPut(products, info.names[i], info), info, i + 1)

\* ProductInfos.to_xml_str: the children of the ProductInfoList node, one
\* for each product under its primary name.
RECURSIVE ProductInfos_to_xml_str(_, _)
ProductInfos_to_xml_str(products, i) ==
    IF i > Len(products) THEN <<>>
    ELSE (IF products[i].key = products[i].val.names[1]
          THEN <<ProductInfo_to_xml(products[i].val)>> ELSE <<>>)
         \o ProductInfos_to_xml_str(products, i + 1)

\* ProductInfos.get_gpu_documentation_primary
get_gpu_documentation_primary(products, name) ==
    IF ~get_gpu(products, name).ok THEN get_gpu(products, name)
    ELSE IF Truthy(get_gpu(products, name).value.document_name)
    THEN get_gpu(products, name)
    ELSE IF \E i \in 1..Len(products) :
               /\ products[i].val.database_key =
                     get_gpu(products, name).value.database_key
               /\ Truthy(products[i].val.document_name)
    THEN Return(products[CHOOSE i \in 1..Len(products) :
                    /\ products[i].val.database_key =
                          get_gpu(products, name).value.database_key
                    /\ Truthy(products[i].val.document_name)
                    /\ \A j \in 1..(i - 1) :
                          ~(/\ products[j].val.database_key =
                                  get_gpu(products, name).value.database_key
                            /\ Truthy(products[j].val.document_name))].val)
    ELSE Raise("KeyError",
               <<"Unknown GPU product documentation primary", name>>)

\* from_xml_str: the indirect document names of the products that have no
\* document name of their own.
SetIndirectNames(products) ==
    IF \E i \in 1..Len(products) :
          /\ products[i].val.document_name = None
          /\ ~get_gpu_documentation_primary(products,
                                            products[i].val.names[1]).ok
    THEN Raise("KeyError", <<"Unknown GPU product documentation primary">>)
    ELSE Return([i \in 1..Len(products) |->
            IF products[i].val.document_name # None THEN products[i]
            ELSE [products[i] EXCEPT !.val.document_name_indirect =
                     get_gpu_documentation_primary(products,
                         products[i].val.names[1]).value.document_name]])

\* ProductInfos.from_xml_str, after the loop has handled the children i..
RECURSIVE ProductInfos_from_xml_str(_, _, _)
ProductInfos_from_xml_str(children, i, products) ==
    IF i > Len(children) THEN SetIndirectNames(products)
    ELSE IF ~ProductInfo_from_xml(children[i]).ok
    THEN ProductInfo_from_xml(children[i])
    ELSE ProductInfos_from_xml_str(children, i + 1,
             PutNames(products, ProductInfo_from_xml(children[i]).value, 1))

\* ProductInfos.__eq__: zip over the two dicts pairs their keys.
ProductInfos_eq(self, other) ==
    /\ Len(self) = Len(other)
    /\ \A i \in 1..Len(self) : self[i].key = other[i].key

\* The product whose fields are varied: the mandatory fields, and each
\* optional field present or absent.
VariedProducts ==
    { [ ProductInfo_init(ids, names, "y2023", architecture, visibility)
          EXCEPT !.database_key = kd[1],
                 !.document_name = kd[2],
                 !.document_name_indirect =
                     IF kd[2] = None THEN "Mali-G0" ELSE None,
                 !.features = features,
                 !.engineering_name = engineering_name,
                 !.project_name = project_name,
                 !.architecture_branch = architecture_branch ] :
        ids \in {<<1>>, <<1, 2>>},
        names \in {<<"Mali-G1">>, <<"Mali-G1", "Immortalis-G1">>},
        architecture \in {"VALHALL", "FIFTH_GENERATION"},
        visibility \in {"PUBLIC", "CONFIDENTIAL"},
        kd \in { <<"Mali-G1", "Mali-G1">>, <<"Mali-G1", "Mali-G0">>,
                 <<"Mali-G0", "Mali-G1">>, <<"Mali-G0", "Mali-G0">>,
                 <<"Mali-G0", None>> },
        features \in {<<>>, <<"async_clock">>},
        engineering_name \in {None, "tEng"},
        project_name \in {None, "Proj"},
        architecture_branch \in {None, "v9"} }

\* The databases serialized: a product with the default optional fields,
\* which is the documentation primary of its database key, and a varied
\* product.
XmlDatabases ==
    { PutNames(PutNames(EmptyDict,
                        ProductInfo_init(<<2>>, <<"Mali-G0">>, "y2019",
                                         "BIFROST", "PUBLIC"), 1),
               p, 1) : p \in VariedProducts }

XmlInit ==
    /\ LibraryIdle
    /\ IdsIdle /\ LayIdle /\ CardIdle /\ DocIdle /\ MainIdle
    /\ CacheIdle /\ ExprIdle /\ NamesIdle
    /\ xml_pc = "db"
    /\ xml_infos \in XmlDatabases
    /\ xml_doc = <<>>
    /\ xml_back = NotCalled

\* serialized = deserialized_original.to_xml_str()
ToXmlStr ==
    /\ xml_pc = "db"
    /\ xml_doc' = Parent("ProductInfoList",
                         ProductInfos_to_xml_str(xml_infos, 1))
    /\ xml_pc' = "serialized"
    /\ UNCHANGED <<xml_infos, xml_back, libVars, idsVars, layVars, cardVars,
                   docVars, mainVars, cacheVars, exprVars, namesVars>>

\* deserialized = ProductInfos.from_xml_str(serialized)
FromXmlStr ==
    /\ xml_pc = "serialized"
    /\ xml_back' = ProductInfos_from_xml_str(EtParsed(xml_doc).children, 1,
                                             EmptyDict)
    /\ xml_pc' = "parsed"
    /\ UNCHANGED <<xml_infos, xml_doc, libVars, idsVars, layVars, cardVars,
                   docVars, mainVars, cacheVars, exprVars, namesVars>>

XmlNext == ToXmlStr \/ FromXmlStr

SpecXml == XmlInit /\ [][XmlNext]_vars

\* ---- resolve_equations on derived counters that refer to each other ----

\* Counter definitions with cyclic derivations: MaliK refers to itself,
\* MaliQ and MaliR refer to each other, MaliN refers to MaliQ from outside
\* the cycle, MaliD refers to no derived counter.
CyclePool ==
    << CounterInfo("MaliA", 1, "hwA", <<"hwA">>, "G1", "a", "Name A",
                   NOVICE, NoEquation, {"g1"}),
       CounterInfo("MaliK", 13, None, <<>>, "G1", "k", "Name K", NOVICE,
                   BinT("add", "+", NameT("MaliA"), NameT("MaliK")),
                   {"g1"}),
       CounterInfo("MaliQ", 14, None, <<>>, "G2", "q", "Name Q", NOVICE,
                   BinT("mul", "*", NameT("MaliR"), NumT("2")), {"g1"}),
       CounterInfo("MaliR", 15, None, <<>>, "G2", "r", "Name R",
                   ADVANCED_SYSTEM,
                   BinT("add", "+", NameT("maliq"), NameT("MaliA")),
                   {"g1"}),
       CounterInfo("MaliN", 16, None, <<>>, "G3", "n", "Name N",
                   ADVANCED_APPLICATION,
                   FnT("max", <<NameT("MaliQ"), NumT("1")>>), {"g1"}),
       CounterInfo("MaliD", 4, None, <<>>, "G2", "d", "Name D", NOVICE,
                   BinT("add", "+", NameT("MaliA"), NameT("MaliA")),
                   {"g1"}) >>

\* The databases: the pool entries at any positions, in file order.
CycleDatabases ==
    { SubSeqOf(CyclePool, S, 1) : S \in SUBSET (1..Len(CyclePool)) }

CycleInit ==
    /\ PPIdle
    /\ pc = "db"
    /\ ct_db \in CycleDatabases
    /\ product \in Products
    /\ lark_none_ok \in BOOLEAN
    /\ NoViews
    /\ ToolsIdle

SpecCycle == CycleInit /\ [][Next]_vars

\* ---- the validator: validate_name_uniqueness, run on its own ----

\* Largest number of entries of a database checked for name uniqueness.
MaxNamesDb == 3

\* The entries of the databases checked: hardware and derived counters, and
\* counters that repeat the machine name, the human name or the group names
\* of another one, for the same or for another GPU.
NamePool ==
    << CounterInfo("MaliA", 1, "hwA", <<"hwA">>, "G1", "a", "Name A",
                   NOVICE, NoEquation, {"g1"}),
       CounterInfo("MaliA", 1, "hwA", <<"hwA">>, "G1", "a", "Name A",
                   NOVICE, NoEquation, {"g2"}),
       CounterInfo("MaliA", 1, "hwB", <<"hwB">>, "G1", "b", "Name B",
                   NOVICE, NoEquation, {"g1"}),
       CounterInfo("MaliC", 3, "hwC", <<"hwC">>, "G1", "a", "Name C",
                   NOVICE, NoEquation, {"g1", "g2"}),
       CounterInfo("MaliQ", 22, None, <<>>, "G3", "q", "Name Q", NOVICE,
                   NameT("MaliA"), {"g1"}),
       CounterInfo("MaliR", 23, None, <<>>, "G3", "r", "Name R", NOVICE,
                   NameT("MaliA"), {"g1", "g2"}),
       CounterInfo("MaliQ", 22, None, <<>>, "G3", "s", "Name S", NOVICE,
                   NameT("MaliC"), {"g1"}),
       CounterInfo("MaliT", 24, None, <<>>, "G3", "t", "Name R", NOVICE,
                   NameT("MaliC"), {"g1", "g2"}),
       CounterInfo("MaliU", 25, None, <<>>, "G3", "q", "Name U", NOVICE,
                   NameT("MaliC"), {"g1"}) >>

NamesDatabases ==
    UNION { {[i \in 1..n |-> NamePool[f[i]]] :
                f \in [1..n -> 1..Len(NamePool)]} : n \in 0..MaxNamesDb }

NamesInit ==
    /\ LibraryIdle
    /\ IdsIdle /\ LayIdle /\ CardIdle /\ DocIdle /\ MainIdle
    /\ CacheIdle /\ ExprIdle /\ XmlIdle
    /\ names_pc = "start"
    /\ names_db \in NamesDatabases
    /\ names_gpu \in {"g1", "g2"}
    /\ names_errors = 0

\* errors += validate_name_uniqueness(gpu)
ValidateNameUniqueness ==
    /\ names_pc = "start"
    /\ names_errors' = validate_name_uniqueness(names_db, names_gpu)
    /\ names_pc' = "returned"
    /\ UNCHANGED <<names_db, names_gpu, libVars, idsVars, layVars, cardVars, docVars, mainVars, cacheVars, exprVars, xmlVars>>

NamesNext == ValidateNameUniqueness

SpecNames == NamesInit /\ [][NamesNext]_vars
\* ------------------------------------------------------------------------
\* Claims about the pretty-printer (checked under SpecPP)
\* ------------------------------------------------------------------------

\* C1: printing a tree, parsing the printed string and printing the parse
\* result again yields the first string: the printed string parses, and the
\* second print equals the first.
C1_RoundTrip ==
    /\ (pp_pc = "parsed" => pp_ast.error = "None")
    /\ (pp_pc = "reprinted" => pp_out2.string = pp_out.string)

\* C1 witness of the divergence: (A * 2) * 0.5 is printed as "A * 1", which
\* parses and is printed again as "A".
C1_Witness ==
    /\ pp_pc = "reprinted"
    /\ pp_tree = BinT("mul", "*",
                      BinT("mul", "*", NameT("A"), NumT("2")), NumT("0.5"))
    /\ pp_out.string = <<"A", "*", "1">>
    /\ pp_out2.string = <<"A">>

RECURSIVE HasLiteral(_)
HasLiteral(t) ==
    CASE t.k = "num" -> TRUE
      [] t.k \in {"name", "refnone"} -> FALSE
      [] t.k = "ref" -> HasLiteral(t.t)
      [] t.k = "fn" -> \E i \in 1..Len(t.args) : HasLiteral(t.args[i])
      [] OTHER -> HasLiteral(t.a) \/ HasLiteral(t.b)

\* C2: the printed string is unambiguous: for a tree without numeric literals
\* (so that no peephole rewrite changes its operands), parsing the printed
\* string yields the grouping of the tree that was printed.
C2_Unambiguous ==
    (pp_pc = "parsed" /\ ~HasLiteral(pp_tree))
        => (pp_ast.error = "None" /\ pp_ast.ast = Unref(pp_tree))

\* C2 witness of the divergence: A / (A / A) is printed as "A / A / A",
\* which parses as (A / A) / A.
C2_Witness ==
    /\ pp_pc = "parsed"
    /\ pp_tree = BinT("mul", "/", NameT("A"),
                      BinT("mul", "/", NameT("A"), NameT("A")))
    /\ pp_out.string = <<"A", "/", "A", "/", "A">>
    /\ pp_ast.ast = BinT("mul", "/",
                         BinT("mul", "/", NameT("A"), NameT("A")),
                         NameT("A"))

\* The string of operand x under a parent (op, prec) by the stated rule.
WrappedByRule(x, op, prec) ==
    IF x.kind = "op" /\ (x.operator # op \/ x.precedence # prec)
    THEN <<"(">> \o x.string \o <<")">>
    ELSE x.string

\* The general rule of C3 on the printed node.
C3_Rule ==
    (pp_pc # "input" /\ pp_tree.k \in {"add", "mul"}) =>
        LET a == PrettyPrint(pp_tree.a)
            b == PrettyPrint(pp_tree.b)
            prec == IF pp_tree.k = "add" THEN 0 ELSE 1
        IN  (pp_tree.k = "add"
               \/ (~IsNumber(a.string) /\ ~IsNumber(b.string)))
            => pp_out.string = WrappedByRule(a, pp_tree.op, prec)
                               \o <<pp_tree.op>>
                               \o WrappedByRule(b, pp_tree.op, prec)

\* The tree of (A + B) * C is printed as out.
PrintsSumTimesC(out) ==
    (pp_pc # "input"
       /\ pp_tree = BinT("mul", "*",
                         BinT("add", "+", NameT("A"), NameT("B")),
                         NameT("C")))
      => pp_out.string = out

\* The tree of A + B * C is printed as out.
PrintsAPlusProduct(out) ==
    (pp_pc # "input"
       /\ pp_tree = BinT("add", "+", NameT("A"),
                         BinT("mul", "*", NameT("B"), NameT("C"))))
      => pp_out.string = out

\* C3 as stated: when a binary node is printed (an add node, or a mul node
\* with no numeric literal operand, which no peephole rewrites), each operand
\* is wrapped in parentheses exactly when it is itself a binary node whose
\* operator or precedence class differs from the parent's; names, literals
\* and function calls are never wrapped.  (A + B) * C prints "(A + B) * C"
\* and A + B * C prints "A + B * C".
C3_AsStated ==
    /\ C3_Rule
    /\ PrintsSumTimesC(<<"(", "A", "+", "B", ")", "*", "C">>)
    /\ PrintsAPlusProduct(<<"A", "+", "B", "*", "C">>)

\* C3 (amended): the same rule; (A + B) * C prints "(A + B) * C", and
\* A + B * C, whose right operand is a binary node of another operator,
\* prints "A + (B * C)".
C3_ParenRule ==
    /\ C3_Rule
    /\ PrintsSumTimesC(<<"(", "A", "+", "B", ")", "*", "C">>)
    /\ PrintsAPlusProduct(<<"A", "+", "(", "B", "*", "C", ")">>)

\* C3 witness: A + B * C has been printed with its product in parentheses.
C3_Witness ==
    /\ pp_pc = "printed"
    /\ pp_tree = BinT("add", "+", NameT("A"),
                      BinT("mul", "*", NameT("B"), NameT("C")))
    /\ pp_out.string = <<"A", "+", "(", "B", "*", "C", ")">>


\* ------------------------------------------------------------------------
\* Claims about IndexedView (checked under Spec)
\* ------------------------------------------------------------------------

\* The counters an index of a view holds, and the counters a view holds.
IndexCounters(v, index) == {v[index][i].val : i \in 1..Len(v[index])}
Held(v) == UNION {IndexCounters(v, index) : index \in IndexNames}

\* The names at the name leaves of a resolved tree.
RECURSIVE NameLeaves(_)
NameLeaves(t) ==
    CASE t.k = "name" -> {t.v}
      [] t.k \in {"num", "refnone"} -> {}
      [] t.k = "ref" -> NameLeaves(t.t)
      [] t.k = "fn" -> UNION {NameLeaves(t.args[i]) : i \in 1..Len(t.args)}
      [] OTHER -> NameLeaves(t.a) \cup NameLeaves(t.b)

\* The view whose resolve_equations returned last.
LastResolved == IF resolved.last = "view" THEN view ELSE flt

HasReturned ==
    /\ resolved.last # "none"
    /\ resolved[resolved.last] = "returned"

\* The name looks up, in v, to a derived counter.
LooksUpDerived(v, n) ==
    LET c == DictGet(v.by_machine_name, Lower(n))
    IN  c # NoRef /\ objects[c].source_name = None

\* The names at the leaves of the resolved equations of the derived counters
\* of v.
ResolvedLeaves(v) ==
    UNION { NameLeaves(objects[c].equation_ast_resolved) :
              c \in { d \in IndexCounters(v, "by_stable_id") :
                        /\ objects[d].source_name = None
                        /\ objects[d].equation_ast_resolved # NoEquation } }

\* C4 as stated: after resolve_equations on a view, no name leaf of the
\* equation_ast_resolved of a derived counter of the view looks up, via
\* get_by_machine_name, to a derived counter.
C4_AsStated ==
    HasReturned =>
        \A n \in ResolvedLeaves(LastResolved) :
            ~LooksUpDerived(LastResolved, n)

\* C4 (amended): after resolve_equations on a view, no name leaf of the
\* equation_ast_resolved of a derived counter of the view, other than a name
\* of the symbolic-constant form, which the resolver keeps without a lookup,
\* looks up to a derived counter.
C4_PrimitiveLeaves ==
    HasReturned =>
        \A n \in ResolvedLeaves(LastResolved) :
            ~MatchesConstantPattern(n) => ~LooksUpDerived(LastResolved, n)

\* C4 witness: MaliE, which refers to the derived MaliD, has been resolved
\* to a tree over MaliA, MaliB and a constant.
C4_Witness ==
    /\ HasReturned
    /\ \E c \in IndexCounters(LastResolved, "by_stable_id") :
          /\ objects[c].machine_name = "MaliE"
          /\ objects[c].equation_ast_resolved # NoEquation
          /\ NameLeaves(objects[c].equation_ast_resolved) =
                {"MaliA", "MaliB", "MALI_CONFIG_SHADER_CORE_COUNT"}

\* The filter predicate of C5 on the arguments of the last filter call.
C5_Pred(cv) ==
    /\ cv.visibility <= args.max_visibility
    /\ (args.derived \/ cv.source_name # None)

C6_SourceUnchanged ==
    [][ (flt = NoView /\ flt' # NoView) =>
           \A index \in IndexNames : view'[index] = view[index] ]_vars

\* C6 witness: a filter has returned a view smaller than its source.
C6_Witness ==
    /\ flt # NoView
    /\ Len(flt.by_stable_id) < Len(view.by_stable_id)
    /\ Len(flt.by_machine_name) > 0

\* Every counter v holds in an index is in by_stable_id under its own ID.
AllByStableId(v) ==
    \A c \in Held(v) :
        \E i \in 1..Len(v.by_stable_id) :
            /\ v.by_stable_id[i].key = objects[c].stable_id
            /\ v.by_stable_id[i].val = c

\* The counter specs of the database that the product supports have
\* pairwise distinct stable IDs.
DistinctStableIds ==
    \A i, j \in 1..Len(ct_db) :
        (/\ i # j
         /\ product.database_key \in ct_db[i].gpu_support
         /\ product.database_key \in ct_db[j].gpu_support)
        => ct_db[i].stable_id # ct_db[j].stable_id

ExactlyOneSet(cv) ==
    (cv.equation_ast_resolved # NoEquation)
        # (cv.equation_ast_resolved_error # NoMessage)

KeptByFilter(c) == C5_Pred(objects[c])

KeptItem(item) == KeptByFilter(item.val)

NonEmptyBlock(block) == block.counters # <<>>

HasCounters(item) == item.val.counters # <<>>

HasGroups(item) == item.val.groups # <<>>

\* The blocks of hw with the failing counters and the empty blocks removed.
PrunedBlocks(hw) ==
    SelectSeq([i \in 1..Len(hw) |->
                  [hw[i] EXCEPT !.counters = SelectSeq(@, KeptByFilter)]],
              NonEmptyBlock)

\* The groups dict with the failing counters and the empty groups removed.
PrunedGroups(groups) ==
    SelectSeq([i \in 1..Len(groups) |->
                  [groups[i] EXCEPT
                      !.val.counters = SelectSeq(@, KeptItem)]],
              HasCounters)

\* The sections dict pruned in the same way.
PrunedSections(sections) ==
    SelectSeq([i \in 1..Len(sections) |->
                  [sections[i] EXCEPT !.val.groups = PrunedGroups(@)]],
              HasGroups)

\* No section of the semantic view is without groups, no group without
\* counters.
NoEmptyContainer(sv) ==
    \A i \in 1..Len(sv.sections) :
        /\ sv.sections[i].val.groups # <<>>
        /\ \A j \in 1..Len(sv.sections[i].val.groups) :
              sv.sections[i].val.groups[j].val.counters # <<>>

\* The view a HardwareView filter returned is the source pruned.
HardwareFiltered ==
    /\ hw_flt.value = PrunedBlocks(hw_view.value)
    /\ \A i \in 1..Len(hw_flt.value) : hw_flt.value[i].counters # <<>>

\* The view a SemanticView filter returned is the source pruned.
SemanticFiltered ==
    /\ sem_flt.value.sections = PrunedSections(sem_view.value.sections)
    /\ NoEmptyContainer(sem_flt.value)

\* C9: HardwareView.filter and SemanticView.filter return a view that keeps
\* exactly the counters that pass, in their original order, and has no empty
\* block, group or section; the call leaves its source unchanged.
C9_StructuredFilter ==
    [][ /\ (~hw_flt.ok /\ hw_flt'.ok) =>
              (hw_view' = hw_view /\ HardwareFiltered')
        /\ (~sem_flt.ok /\ sem_flt'.ok) =>
              (sem_view' = sem_view /\ SemanticFiltered') ]_vars

\* C9 witness: a SemanticView filter has dropped a whole section, a whole
\* group of a section it kept, and a counter of a group it kept.
C9_Witness ==
    /\ sem_flt.ok
    /\ Len(sem_flt.value.sections) = 1
    /\ Len(sem_view.value.sections) = 2
    /\ Len(sem_view.value.sections[1].val.groups) = 2
    /\ Len(sem_flt.value.sections[1].val.groups) = 1
    /\ Len(sem_flt.value.sections[1].val.groups[1].val.counters)
          < Len(sem_view.value.sections[1].val.groups[1].val.counters)

\* The counter the by_group_names index of the view holds for the names.
FoundByGroupNames(group_name, counter_name) ==
    LET key == <<Lower(group_name), "|", Lower(counter_name)>>
        hits == { i \in 1..Len(view.by_group_names) :
                     view.by_group_names[i].key = key }
    IN  IF hits = {} THEN NoRef
        ELSE view.by_group_names[CHOOSE i \in hits : TRUE].val

\* The documentation database has an entry that applies to the product for
\* the section or group: one that names the key, or a default.
HasApplicableInfo(name) ==
    \E i \in 1..Len(info_db[name]) :
        product.database_key \in info_db[name][i] \/ info_db[name][i] = {}

\* The (counter name, counter) pairs of a layout group that are found.
FoundCounters(group) ==
    LET found(name) == FoundByGroupNames(group.name, name) # NoRef
        names == SelectSeq(group.counters, found)
    IN  [i \in 1..Len(names) |->
            <<names[i], FoundByGroupNames(group.name, names[i])>>]

\* The layout as (section, <<(group, found counters)>>) with the groups and
\* sections that fail the test, or are left with nothing, removed.
LayoutFound(Documented(_)) ==
    LET groupOk(g) == Documented(g.name) /\ FoundCounters(g) # <<>>
        groupsOf(s) ==
            LET groups == SelectSeq(s.groups, groupOk)
            IN  [j \in 1..Len(groups) |->
                    <<groups[j].name, FoundCounters(groups[j])>>]
        sectionOk(s) == Documented(s.name) /\ groupsOf(s) # <<>>
        sections == SelectSeq(SemanticLayout, sectionOk)
    IN  [i \in 1..Len(sections) |->
            <<sections[i].name, groupsOf(sections[i])>>]

\* The names and counters of a semantic view, in its order.
Contents(sv) ==
    [i \in 1..Len(sv.sections) |->
        <<sv.sections[i].key,
          [j \in 1..Len(sv.sections[i].val.groups) |->
              <<sv.sections[i].val.groups[j].key,
                [k \in 1..Len(sv.sections[i].val.groups[j].val.counters) |->
                    <<sv.sections[i].val.groups[j].val.counters[k].key,
                      sv.sections[i].val.groups[j].val.counters[k].val>>]>>]>>]

AnyName(name) == TRUE

\* C10 as stated: SemanticView.from_db keeps, in layout order, exactly the
\* layout counters found in the IndexedView by (group, counter name); groups
\* and sections left with nothing are absent; no SemanticView, built or
\* filtered, has an empty group or section.
C10_AsStated ==
    /\ sem_view.ok =>
          /\ Contents(sem_view.value) = LayoutFound(AnyName)
          /\ NoEmptyContainer(sem_view.value)
    /\ sem_flt.ok => NoEmptyContainer(sem_flt.value)

\* C10 (amended): when SemanticView.from_db returns a view, the view keeps,
\* in layout order, exactly the found layout counters of the groups and
\* sections that have a documentation entry applicable to the product;
\* groups and sections left with nothing are absent; no SemanticView, built
\* or filtered, has an empty group or section.
C10_LayoutOrder ==
    /\ sem_view.ok =>
          /\ Contents(sem_view.value) = LayoutFound(HasApplicableInfo)
          /\ NoEmptyContainer(sem_view.value)
    /\ sem_flt.ok => NoEmptyContainer(sem_flt.value)

\* C10 witness: a view has been built from a database with found counters in
\* group G2, for which there is no documentation entry, and counters of the
\* layout that the IndexedView does not have.
C10_Witness ==
    /\ sem_view.ok
    /\ info_db["G2"] = <<>>
    /\ FoundByGroupNames("G2", "d") # NoRef
    /\ FoundByGroupNames("G1", "b") = NoRef
    /\ Len(sem_view.value.sections) = 2

\* ------------------------------------------------------------------------
\* Claims about CounterView (checked under Spec)
\* ------------------------------------------------------------------------

\* The CounterView objects that from_db has built.
Built == {c \in 1..Len(objects) : objects[c] # NoObject}

\* The clock domain the case analysis of the specification gives a counter.
ClockDomainByCase(cv) ==
    IF is_derived(cv) THEN None
    ELSE IF ~has_feature(product, "async_clock") THEN "GPU"
    ELSE IF cv.block_type = "SHADER_CORE" THEN "SHADER_CORE"
    ELSE "GPU"

\* C11: every CounterView has the clock domain of the case analysis: None
\* when derived, GPU when native on a product without async_clock, and on an
\* async_clock product SHADER_CORE for a shader core block and GPU otherwise;
\* so a native counter never has the clock domain None.
C11_ClockDomain ==
    \A c \in Built :
        /\ objects[c].clock_domain = ClockDomainByCase(objects[c])
        /\ ~is_derived(objects[c]) => objects[c].clock_domain # None

\* C11 witness: on an async_clock product, from_db has built a native shader
\* core counter, a native memory system counter and a derived counter.
C11_Witness ==
    /\ has_feature(product, "async_clock")
    /\ \E c, d, e \in Built :
         /\ objects[c].clock_domain = "SHADER_CORE"
         /\ ~is_derived(objects[d]) /\ objects[d].clock_domain = "GPU"
         /\ is_derived(objects[e]) /\ objects[e].clock_domain = None

\* ------------------------------------------------------------------------
\* Claims about validate_stable_ids (checked under SpecIds)
\* ------------------------------------------------------------------------

\* C12: a second run of validate_stable_ids, on the database the first run
\* has patched, finds no counter without an ID, assigns nothing, and leaves
\* every stable_id as the first run left it.
C12_Idempotent ==
    ids_pc = "twice" =>
        /\ ids_run2.assigned = 0
        /\ \A i \in 1..Len(ids_db) : ids_db[i].stable_id # NoId
        /\ ids_db = ids_run1.cnt_db

\* C12 witness: the second run has returned after a first run that gave an
\* ID to two counters.
C12_Witness ==
    /\ ids_pc = "twice"
    /\ ids_run1.assigned >= 2

\* The stable IDs that the entries of machine name n carry in db.
IdsOf(db, n) ==
    {db[i].stable_id : i \in {j \in 1..Len(db) : db[j].machine_name = n}}
        \ {NoId}

NamesOf(db) == {db[i].machine_name : i \in 1..Len(db)}

\* The IDs already assigned in db are consistent: no machine name has two
\* IDs and no ID is carried by two machine names.
ConsistentIds(db) ==
    /\ \A n \in NamesOf(db) : Cardinality(IdsOf(db, n)) <= 1
    /\ \A n, m \in NamesOf(db) : n # m => IdsOf(db, n) \cap IdsOf(db, m) = {}

\* The IDs carried in db by the machine names other than n.
IdsOfOthers(db, n) == UNION {IdsOf(db, m) : m \in NamesOf(db) \ {n}}

\* C13: after validate_stable_ids has run on a database whose assigned IDs
\* are consistent, every counter has an ID, the entries of one machine name
\* share one ID, two machine names never share an ID, and each machine name
\* that lacked an ID has the lowest ID that no other machine name uses.
C13_OneToOne ==
    (ids_pc = "once" /\ ConsistentIds(ids_db0)) =>
        /\ \A i \in 1..Len(ids_db) : ids_db[i].stable_id # NoId
        /\ ConsistentIds(ids_db)
        /\ \A n \in NamesOf(ids_db0) :
              IdsOf(ids_db0, n) = {} =>
                  \A id \in IdsOf(ids_db, n) :
                      /\ id \notin IdsOfOthers(ids_db, n)
                      /\ \A lower \in 0..(id - 1) :
                            lower \in IdsOfOthers(ids_db, n)

\* C13 witness: validate_stable_ids has returned on a consistent database in
\* which two machine names lacked an ID and a third had one.
C13_Witness ==
    /\ ids_pc = "once"
    /\ ConsistentIds(ids_db0)
    /\ \E n, m \in NamesOf(ids_db0) :
         /\ n # m
         /\ IdsOf(ids_db0, n) = {} /\ IdsOf(ids_db0, m) = {}
    /\ \E n \in NamesOf(ids_db0) : IdsOf(ids_db0, n) # {}

\* ------------------------------------------------------------------------
\* Claims about validate_semantic_layout (checked under SpecLayout)
\* ------------------------------------------------------------------------

\* The groups of a layout, and its (group, counter) pairs.
LayoutGroups(sl_db) ==
    UNION {SetOf(sl_db[i].groups) : i \in 1..Len(sl_db)}

LayoutPairs(sl_db) ==
    UNION {{<<g.name, c>> : c \in SetOf(g.counters)} : g \in LayoutGroups(sl_db)}

DbPairs(cnt_db) ==
    {<<cnt_db[i].group_name, cnt_db[i].group_human_name>> :
        i \in 1..Len(cnt_db)}

\* No section name and no group name occurs twice in the layout, and no
\* counter name twice in a group.
UniqueLayoutNames(sl_db) ==
    /\ \A i, j \in 1..Len(sl_db) : sl_db[i].name = sl_db[j].name => i = j
    /\ \A g, h \in LayoutGroups(sl_db) : g.name = h.name => g = h
    /\ \A i, j \in 1..Len(sl_db) :
          i # j => SetOf(sl_db[i].groups) \cap SetOf(sl_db[j].groups) = {}
    /\ \A g \in LayoutGroups(sl_db) :
          \A i, j \in 1..Len(g.counters) :
              g.counters[i] = g.counters[j] => i = j

\* The number of messages of the reason printed for the pair.
PrintedFor(reason, pair) ==
    CopiesIn([reason |-> reason, name |-> Dotted(pair[1], pair[2])],
             lay_run.printed)

\* C14: on a layout with unique names, a (group, counter) pair of a layout
\* group that is in the counter database but not in the layout yields exactly
\* one 'Extra semantic counter in CounterInfo' error however many entries
\* the counter has, a pair only in the layout yields exactly one 'Extra
\* semantic counter in SemanticLayout' error, and no pair yields both.
C14_ExtraOnce ==
    (lay_pc = "done" /\ UniqueLayoutNames(lay_layout)) =>
        \A g \in LayoutGroups(lay_layout), c \in {"a", "b"} :
            LET pair == <<g.name, c>>
                in_db == pair \in DbPairs(lay_db)
                in_layout == pair \in LayoutPairs(lay_layout)
                ci == PrintedFor("Extra semantic counter in CounterInfo", pair)
                sl == PrintedFor("Extra semantic counter in SemanticLayout",
                                 pair)
            IN  /\ (in_db /\ ~in_layout) => (ci = 1 /\ sl = 0)
                /\ (in_layout /\ ~in_db) => (sl = 1 /\ ci = 0)
                /\ ~(ci > 0 /\ sl > 0)

\* C14 witness: the check has run on a database with two entries of a
\* counter that its layout group does not list, and a layout counter that
\* the database does not have.
C14_Witness ==
    /\ lay_pc = "done"
    /\ UniqueLayoutNames(lay_layout)
    /\ \E i, j \in 1..Len(lay_db) :
         /\ i # j /\ lay_db[i] = lay_db[j]
         /\ lay_db[i].group_name \in {g.name : g \in LayoutGroups(lay_layout)}
         /\ <<lay_db[i].group_name, lay_db[i].group_human_name>>
               \notin LayoutPairs(lay_layout)
    /\ LayoutPairs(lay_layout) \ DbPairs(lay_db) # {}

\* ------------------------------------------------------------------------
\* Claims about validate_derived_equation_cardinality (checked under
\* SpecCard)
\* ------------------------------------------------------------------------

\* The number of missing-scaling errors reported for a counter and a domain,
\* and for a counter.
MissingFor(name, domain) ==
    CopiesIn([reason |-> "Missing cardinality scaling",
              name |-> <<name, domain>>], card_run.value.printed)

MissingErrors(name) ==
    MissingFor(name, "GPU") + MissingFor(name, "MEM") + MissingFor(name, "SC")

\* The check has returned for a database whose derived counter MaliQ is the
\* sum, in either order, of the shader core term and the memory system term.
CheckedSum(shader, mem) ==
    /\ card_run.ok
    /\ \E i \in 1..Len(ct_db) :
         /\ ct_db[i].machine_name = "MaliQ"
         /\ ct_db[i].equation_ast \in {BinT("add", "+", shader, mem),
                                       BinT("add", "+", mem, shader)}

ShaderBare == NameT("MaliA")
ShaderScaled == Scaled("MaliA", "MALI_CONFIG_SHADER_CORE_COUNT")
MemBare == NameT("MaliC")
MemScaled == Scaled("MaliC", "MALI_CONFIG_L2_CACHE_COUNT")

\* C15 as stated: for shader_counter + mem_counter with no scaling constant
\* the check reports exactly one missing-scaling error, and with the
\* constant of every non-GPU domain touched it reports none.
C15_AsStated ==
    /\ CheckedSum(ShaderBare, MemBare) => MissingErrors("MaliQ") = 1
    /\ CheckedSum(ShaderScaled, MemScaled) => MissingErrors("MaliQ") = 0

\* C15 (amended): the check reports one missing-scaling error for each
\* non-GPU domain of the equation whose constant is absent: two for
\* shader_counter + mem_counter with no constant, one, for the other domain,
\* when one of the two constants is present, and none when both are.
C15_OnePerDomain ==
    /\ CheckedSum(ShaderBare, MemBare) =>
          /\ MissingErrors("MaliQ") = 2
          /\ MissingFor("MaliQ", "SC") = 1 /\ MissingFor("MaliQ", "MEM") = 1
    /\ CheckedSum(ShaderScaled, MemBare) =>
          /\ MissingErrors("MaliQ") = 1 /\ MissingFor("MaliQ", "MEM") = 1
    /\ CheckedSum(ShaderBare, MemScaled) =>
          /\ MissingErrors("MaliQ") = 1 /\ MissingFor("MaliQ", "SC") = 1
    /\ CheckedSum(ShaderScaled, MemScaled) => MissingErrors("MaliQ") = 0

\* C15 witness: the check has returned two errors for MaliA + MaliC.
C15_Witness ==
    /\ CheckedSum(ShaderBare, MemBare)
    /\ MissingErrors("MaliQ") = 2

\* ---------------------------------------------------------------------------
\* C16: main runs every check whatever the database holds, no check ends the
\* run by an exception, and main exits non-zero exactly when the summed error
\* count is positive.

\* The check at which an exception left main.
AbortedAt(name) ==
    /\ main_exit = "traceback"
    /\ main_ran # <<>>
    /\ main_ran[Len(main_ran)] = name

\* C16: no run of main ends by an exception of a check, and a run that
\* returned has executed all the checks, in main's order, and returned 1
\* exactly when the summed error count is positive.
C16_AllChecksRun ==
    /\ main_exit # "traceback"
    /\ main_exit \in {"return 0", "return 1"} =>
          /\ main_ran = MainChecks
          /\ (main_exit = "return 1") <=> (main_errors > 0)

\* A database in which no counter has a stable ID: validate_stable_ids
\* raises ValueError and the checks after it are not run.
C16_Witness ==
    /\ AbortedAt("validate_stable_ids")
    /\ \A i \in 1..Len(ct_db) : ct_db[i].stable_id = NoId
    /\ Len(main_ran) < Len(MainChecks)

\* ------------------------------------------------------------------------
\* Claims about validate_string_resolve (checked under SpecDocs)
\* ------------------------------------------------------------------------

\* The reference names a known constant, or a counter of the view, and has
\* a postfix its type allows.
NamesKnown(ref) ==
    \/ ref.type = "K" /\ ref.name = "GPU_NAME" /\ ref.part = <<>>
    \/ /\ ref.type = "C"
       /\ get_by_machine_name(view, ref.name) # NoRef
       /\ ref.part \in {<<>>, <<".", "equation">>}

\* The reference names an unknown constant, or a counter absent from the
\* view.
NamesUnknown(ref) ==
    \/ ref.type = "K" /\ ref.name # "GPU_NAME"
    \/ ref.type = "C" /\ get_by_machine_name(view, ref.name) = NoRef

AllRefs(P(_)) == \A i \in 1..Len(doc_refs) : P(doc_refs[i])
SomeRef(P(_)) == \E i \in 1..Len(doc_refs) : P(doc_refs[i])

SingleColon(ref) == ref.sep = <<":">>
DoubleColon(ref) == ref.sep = <<":", ":">>

CachedIn(d) == {d[i].val : i \in 1..Len(d)}

\* Every view of the indexed view cache is an IndexedView built for the name
\* it is cached under, with one call of resolve_equations made on it.
ResolvedOnce(d, heap) ==
    \A i \in 1..Len(d) :
        /\ d[i].val \in 1..Len(heap)
        /\ heap[d[i].val].class = "IndexedView"
        /\ heap[d[i].val].product_name = d[i].key
        /\ heap[d[i].val].resolve_calls = 1

\* C18: in every step, a getter called with a name for which it has returned
\* a view since the last clear_cache returns that same view object and builds
\* no view; every view in the indexed view cache has had resolve_equations
\* applied exactly once; and clear_cache leaves all three caches empty.
C18_Caches ==
    [][/\ \A g \in Getters, n \in CacheNames :
            (cache_prev[g][n] # NoRef /\ cache_ret'.op = g
                                      /\ cache_ret'.name = n) =>
               /\ cache_ret'.ret = Return(cache_prev[g][n])
               /\ cache_ret'.built = 0
               /\ cache_heap' = cache_heap
       /\ ResolvedOnce(g_iview_db', cache_heap')
       /\ cache_ret'.op = "clear_cache" =>
             /\ g_iview_db' = EmptyDict
             /\ g_hview_db' = EmptyDict
             /\ g_sview_db' = EmptyDict]_vars

\* A view was built and cached, clear_cache dropped it, the getter built a
\* second view for the name, and the next get returned that second view
\* without building.
C18_Witness ==
    /\ cache_ret.op \in Getters
    /\ cache_ret.ret.ok
    /\ cache_ret.built = 0
    /\ \E i \in 1..Len(cache_heap) :
          /\ cache_heap[i].class = "IndexedView"
          /\ cache_heap[i].product_name = cache_ret.name
          /\ i \notin CachedIn(g_iview_db)
    /\ cache_ret.ret.value = cache_prev[cache_ret.op][cache_ret.name]

\* ---------------------------------------------------------------------------
\* C19: the rendering entry points clamp percentages, the pretty printer
\* does not.

EntryPoints ==
    { "get_machine_name_expression", "get_source_name_expression",
      "get_streamline_expression" }

\* The text max(min(<e>, 100), 0).
Wrapped(e) ==
    <<"max", "(", "min", "(">> \o e \o <<",", "100", ")", ",", "0", ")">>

\* s is the text max(min(<e>, 100), 0) of some e.
HasClampForm(s) ==
    /\ Len(s) >= 10
    /\ SubSeq(s, 1, 4) = <<"max", "(", "min", "(">>
    /\ SubSeq(s, Len(s) - 5, Len(s)) = <<",", "100", ")", ",", "0", ")">>

\* The tree is itself a call max(min(..., 100), 0).
IsClampCall(t) ==
    /\ t.k = "fn" /\ t.f = "max" /\ Len(t.args) = 2
    /\ t.args[2] = NumT("0")
    /\ t.args[1].k = "fn" /\ t.args[1].f = "min" /\ Len(t.args[1].args) = 2
    /\ t.args[1].args[2] = NumT("100")

\* The pretty-printed expression of an entry point for a counter: the
\* printed resolved equation, renamed as the entry point renames it.
BareExpression(fn, cv) ==
    CASE fn = "get_machine_name_expression" ->
            PrettyPrint(cv.equation_ast_resolved).string
      [] fn = "get_source_name_expression" ->
            PrettyPrint(HardwareTransform(view, objects,
                                          cv.equation_ast_resolved)).string
      [] fn = "get_streamline_expression" ->
            IF StreamlineAst(cv) = NoEquation THEN <<"None">>
            ELSE PrettyPrint(StreamlineTransform(view, objects,
                                 StreamlineAst(cv)).value).string

\* C19: an entry point that returns, returns max(min(<expr>, 100), 0) around
\* the pretty-printed expression when the unit of the counter is 'percent'
\* and the bare pretty-printed expression for any other unit; and
\* equation_ast_to_string returns a text of that form only for a tree that
\* is itself such a call.
C19_PercentClamp ==
    /\ (expr_call.fn \in EntryPoints /\ expr_call.ret.ok) =>
          expr_call.ret.value =
             IF expr_call.unit = "percent"
             THEN Wrapped(BareExpression(expr_call.fn,
                                         objects[expr_call.counter]))
             ELSE BareExpression(expr_call.fn, objects[expr_call.counter])
    /\ (expr_call.fn = "equation_ast_to_string" /\ expr_call.ret.ok
          /\ HasClampForm(expr_call.ret.value)) =>
          IsClampCall(objects[expr_call.counter].equation_ast_resolved)

\* The Streamline expression of a derived percentage whose equation has an
\* operator was returned clamped.
C19_Witness ==
    /\ expr_call.fn = "get_streamline_expression"
    /\ expr_call.ret.ok
    /\ expr_call.unit = "percent"
    /\ is_derived(objects[expr_call.counter])
    /\ objects[expr_call.counter].equation_ast_resolved.k \in {"add", "mul"}
    /\ HasClampForm(expr_call.ret.value)
    /\ ~HasClampForm(BareExpression(expr_call.fn,
                                    objects[expr_call.counter]))

\* ---------------------------------------------------------------------------
\* C20: serializing a ProductInfos database to XML and parsing the result
\* back yields a database in which every product equals the original field
\* by field (ids, names, architecture, visibility, document_name,
\* database_key, features, engineering_name, project_name,
\* architecture_branch), whichever optional fields are present.
C20_RoundTrip ==
    xml_pc = "parsed" =>
        /\ xml_back.ok
        /\ ProductInfos_eq(xml_infos, xml_back.value)
        /\ \A i \in 1..Len(xml_infos) :
              ProductInfo_eq(xml_infos[i].val, xml_back.value[i].val)

\* A database whose varied product has a project name and an engineering
\* name was serialized and parsed back: the two databases are equal for
\* ProductInfos.__eq__, and the project name read back is the engineering
\* name.
C20_Witness ==
    /\ xml_pc = "parsed"
    /\ xml_back.ok
    /\ ProductInfos_eq(xml_infos, xml_back.value)
    /\ \E i \in 1..Len(xml_infos) :
          /\ xml_infos[i].val.project_name = "Proj"
          /\ xml_infos[i].val.engineering_name = "tEng"
          /\ xml_back.value[i].val.project_name = "tEng"
          /\ ~ProductInfo_eq(xml_infos[i].val, xml_back.value[i].val)

\* ---------------------------------------------------------------------------
\* Claims about cyclic derivations (checked under SpecCycle)

\* The derived counters of v that the equation of counter c refers to.
DerivedRefs(v, c) ==
    IF objects[c].equation_ast = NoEquation THEN {}
    ELSE { get_by_machine_name(v, n) :
             n \in { x \in NameLeaves(objects[c].equation_ast) :
                       /\ ~MatchesConstantPattern(x)
                       /\ get_by_machine_name(v, x) # NoRef
                       /\ is_derived(objects[get_by_machine_name(v, x)]) } }

\* The counters reached from the set S by at most n references.
RECURSIVE ReachedFrom(_, _, _)
ReachedFrom(v, S, n) ==
    IF n = 0 THEN S
    ELSE ReachedFrom(v, S \cup UNION { DerivedRefs(v, c) : c \in S }, n - 1)

\* The derived counter c of v is on a cycle of references of v.
OnCycle(v, c) ==
    /\ is_derived(objects[c])
    /\ c \in ReachedFrom(v, DerivedRefs(v, c), Len(objects))

\* The counters of v on a cycle.
CycleCounters(v) == { c \in IndexCounters(v, "by_stable_id") : OnCycle(v, c) }

\* C21 as stated: resolving a counter on a cycle of derived references does
\* not terminate and produces no error value: resolve_equations never
\* completes on a view with a counter on a cycle.
C21_NoTermination ==
    /\ (view # NoView /\ CycleCounters(view) # {}) => resolved.view = "no"
    /\ (flt # NoView /\ CycleCounters(flt) # {}) => resolved.flt = "no"

\* C21 (amended): the resolver has no depth guard and no visited set, and
\* resolving a counter on a cycle recurses once per reference until the
\* interpreter's recursion limit raises RecursionError; the token callback
\* wrapper turns it into a VisitError and equation_ast_to_resolved_ast into
\* an error value: resolve_equations returns, and every counter on a cycle
\* has no equation_ast_resolved and has an equation_ast_resolved_error.
C21_CycleError ==
    /\ resolved.view # "raised" /\ resolved.flt # "raised"
    /\ HasReturned =>
          \A c \in CycleCounters(LastResolved) :
              /\ objects[c].equation_ast_resolved = NoEquation
              /\ objects[c].equation_ast_resolved_error # NoMessage

\* C21 witness: resolve_equations has returned on a view in which MaliQ and
\* MaliR refer to each other and MaliK refers to itself; the three carry the
\* recursion error, and so does MaliN, which refers to MaliQ.
C21_Witness ==
    /\ HasReturned
    /\ \E k, q, r, n \in IndexCounters(LastResolved, "by_stable_id") :
          /\ objects[k].machine_name = "MaliK"
          /\ objects[q].machine_name = "MaliQ"
          /\ objects[r].machine_name = "MaliR"
          /\ objects[n].machine_name = "MaliN"
          /\ {k, q, r} = CycleCounters(LastResolved)
          /\ \A c \in {k, q, r, n} :
                objects[c].equation_ast_resolved_error =
                    Message(<<"maximum recursion depth">>)

\* ---------------------------------------------------------------------------
\* C22, C23: the peephole rewrites of the pretty-printer (checked under
\* SpecPP)

\* str(x) of the float num/den, for the values with one or two decimals that
\* products of the model's literals take.
FloatLiteral(num, den) ==
    ToString(num \div den)
        \o (CASE (4 * num) \div den % 4 = 0 -> ".0"
              [] (4 * num) \div den % 4 = 1 -> ".25"
              [] (4 * num) \div den % 4 = 2 -> ".5"
              [] OTHER -> ".75")

\* The literal of the value num/den: the integer literal of an integer, the
\* float literal of any other value.
LiteralOf(num, den) ==
    IF num % den = 0 THEN ToString(num \div den) ELSE FloatLiteral(num, den)

\* The printed node is a multiplication of two numeric literals.
LiteralTimesLiteral ==
    /\ pp_pc # "input"
    /\ pp_tree.k = "mul" /\ pp_tree.op = "*"
    /\ pp_tree.a.k = "num" /\ pp_tree.b.k = "num"

\* C22: when both operands of a multiplication are numeric literals, the
\* printer emits a single literal whose value is their product: the integer
\* literal when the product is an integer (2 * 3 -> 6), the float literal of
\* that value otherwise (0.5 * 3 -> 1.5).
C22_FoldedLiteral ==
    LiteralTimesLiteral =>
        pp_out.string =
            << LiteralOf(FloatOf(pp_tree.a.v).num * FloatOf(pp_tree.b.v).num,
                         FloatOf(pp_tree.a.v).den * FloatOf(pp_tree.b.v).den) >>

\* C22 divergence: 0.5 * 3 has been printed, and the output is the text of
\* the type object, not 1.5.
C22_Witness ==
    /\ pp_pc = "printed"
    /\ pp_tree = BinT("mul", "*", NumT("0.5"), NumT("3"))
    /\ LiteralOf(3, 2) = "1.5"
    /\ pp_out.string = <<FloatClassStr>>

\* The printed node is a binary node whose operands were printed.
BinaryPrinted ==
    /\ pp_pc # "input"
    /\ pp_tree.k \in {"add", "mul"}
    /\ PrettyPrint(pp_tree.a).kind # "raise"
    /\ PrettyPrint(pp_tree.b).kind # "raise"

\* The printed operand is a numeric literal.
IsLiteral(x) == x.kind = "str" /\ IsNumber(x.string)

\* The printed operand is the literal 1.
IsOne(x) == x.kind = "str" /\ x.string = <<"1">>

\* The printed left operand has the shape a * lit1.
IsTimesLiteral(x) ==
    x.kind = "op" /\ x.operator = "*" /\ IsNumber(x.op_b.string)

\* The node is printed with its operator and its operands unchanged.
PrintedUnchanged(a, op, b, prec) ==
    pp_out.string = WrappedByRule(a, op, prec) \o <<op>>
                    \o WrappedByRule(b, op, prec)

\* The literal the printer writes for the value num/den.
FoldedAs(num, den) ==
    IF num % den = 0 THEN ToString(num \div den) ELSE FloatClassStr

\* The printed node has one of the four shapes x*1, 1*y, literal*literal,
\* (a*lit1)*lit2.
FourShapes(a, op, b) ==
    /\ op = "*"
    /\ \/ IsOne(b)
       \/ IsOne(a)
       \/ IsLiteral(a) /\ IsLiteral(b)
       \/ IsTimesLiteral(a) /\ IsLiteral(b)

MulRewritten(a, op, b) ==
    IF IsOne(b) THEN pp_out.string = a.string
    ELSE IF op = "*" /\ IsOne(a) THEN pp_out.string = b.string
    ELSE IF IsLiteral(a) /\ IsLiteral(b)
    THEN IF op = "*"
         THEN pp_out.string =
                 << FoldedAs(FloatOf(a.string[1]).num * FloatOf(b.string[1]).num,
                             FloatOf(a.string[1]).den * FloatOf(b.string[1]).den) >>
         ELSE IF FloatOf(b.string[1]).num = 0 THEN pp_out.kind = "raise"
         ELSE pp_out.string =
                 << FoldedAs(FloatOf(a.string[1]).num * FloatOf(b.string[1]).den,
                             FloatOf(a.string[1]).den * FloatOf(b.string[1]).num) >>
    ELSE IF op = "*" /\ IsTimesLiteral(a) /\ IsLiteral(b)
    THEN pp_out.string =
            WrappedByRule(a.op_a, "*", 1) \o <<"*">>
            \o << FoldedAs(FloatOf(a.op_b.string[1]).num * FloatOf(b.string[1]).num,
                           FloatOf(a.op_b.string[1]).den * FloatOf(b.string[1]).den) >>
    ELSE PrintedUnchanged(a, op, b, 1)

ManyDefaults(name) ==
    Cardinality({ i \in 1..Len(info_db[name]) : info_db[name][i] = {} }) > 1

\* The names of the sections and groups of the layout.
LayoutNames ==
    { SemanticLayout[i].name : i \in 1..Len(SemanticLayout) }
    \cup UNION { { SemanticLayout[i].groups[j].name :
                     j \in 1..Len(SemanticLayout[i].groups) } :
                 i \in 1..Len(SemanticLayout) }

\* C24 as stated: when the candidate list of a section or group has more
\* than one default entry, or no entry applicable to the product,
\* SemanticView.from_db raises an error instead of returning a view.
C24_AsStated ==
    (sem_view # NotCalled
       /\ \E name \in LayoutNames :
             ManyDefaults(name) \/ ~HasApplicableInfo(name))
    => ~sem_view.ok

\* The positions of the candidates naming the product's database key.
ExactAt(name) ==
    { i \in 1..Len(info_db[name]) :
         product.database_key \in info_db[name][i] }

\* The lookup of the name meets a second default entry before any entry
\* naming the product.
SecondDefaultFirst(name) ==
    \E i, j \in 1..Len(info_db[name]) :
        /\ i < j
        /\ info_db[name][i] = {} /\ info_db[name][j] = {}
        /\ \A e \in ExactAt(name) : j < e

\* The section is looked up and its lookup, or the lookup of one of its
\* groups, meets a second default first; the groups of a section without an
\* applicable entry are not looked up.
SectionAsserts(section) ==
    \/ SecondDefaultFirst(section.name)
    \/ /\ HasApplicableInfo(section.name)
       /\ \E j \in 1..Len(section.groups) :
             SecondDefaultFirst(section.groups[j].name)

\* C24 (amended): get_info_for raises KeyError when the list has no entry
\* applicable to the product, and SemanticView.from_db catches it and leaves
\* the section or group out of the view it returns; from_db raises, with an
\* AssertionError, exactly when a lookup it makes meets a second default
\* entry before an entry naming the product.
C24_Raises ==
    sem_view # NotCalled =>
        /\ sem_view.ok <=>
              ~\E i \in 1..Len(SemanticLayout) :
                   SectionAsserts(SemanticLayout[i])
        /\ ~sem_view.ok => sem_view.exc = "AssertionError"
        /\ sem_view.ok =>
              \A i \in 1..Len(sem_view.value.sections) :
                  /\ HasApplicableInfo(sem_view.value.sections[i].key)
                  /\ \A j \in 1..Len(sem_view.value.sections[i].val.groups) :
                        HasApplicableInfo(
                            sem_view.value.sections[i].val.groups[j].key)

\* C24 witness: from_db has returned a view although section S2 has no
\* applicable entry and its group G3 has two defaults; S2 is not in the view.
C24_Witness ==
    /\ sem_view.ok
    /\ ~HasApplicableInfo("S2")
    /\ ManyDefaults("G3")
    /\ Len(sem_view.value.sections) = 1
    /\ sem_view.value.sections[1].key = "S1"

\* ---------------------------------------------------------------------------
\* C25: the placement of native counters by IndexedView.from_db (checked
\* under Spec)

\* The names from_db searches for a counter: source_name, then the aliases.
SearchNames(ci) == <<ci.source_name>> \o ci.source_name_aliases

\* The (block, slot) positions of the layout that carry the name.
SlotsNamed(name) ==
    { bs \in (1..Len(HardwareLayout)) \X (1..2) :
         /\ bs[2] <= Len(HardwareLayout[bs[1]].counters)
         /\ HardwareLayout[bs[1]].counters[bs[2]].name = name }

\* The first position of the layout that carries the name.
FirstSlot(name) ==
    CHOOSE bs \in SlotsNamed(name) :
        \A other \in SlotsNamed(name) :
            bs[1] < other[1] \/ (bs[1] = other[1] /\ bs[2] <= other[2])

\* The positions of the search names that have a slot.
Placeable(ci) ==
    { i \in 1..Len(SearchNames(ci)) : SlotsNamed(SearchNames(ci)[i]) # {} }

\* The first search name that has a slot.
FirstPlaceable(ci) ==
    SearchNames(ci)[CHOOSE i \in Placeable(ci) :
                       \A j \in Placeable(ci) : i <= j]

\* The CounterView has the placement the claim gives for its CounterInfo.
PlacedAsClaimed(cv, ci) ==
    IF Placeable(ci) # {}
    THEN LET bs == FirstSlot(FirstPlaceable(ci))
         IN  /\ cv.source_name = FirstPlaceable(ci)
             /\ cv.block_type = HardwareLayout[bs[1]].btype
             /\ cv.block_index = HardwareLayout[bs[1]].counters[bs[2]].index
             /\ cv.scale_multiplier =
                   2 ^ HardwareLayout[bs[1]].counters[bs[2]].shift
    ELSE /\ cv.source_name = ci.source_name
         /\ cv.block_type = None
         /\ cv.block_index = 0
         /\ cv.scale_multiplier = 1

\* C25: from_db places each native counter at the first name of
\* [source_name] + aliases that has a slot in the hardware layout, with the
\* source name, block type, block index and multiplier 2^shift of that slot;
\* a counter none of whose names has a slot keeps its own source_name with
\* block type None, index 0 and multiplier 1; counters that do not support
\* the product's database key are not in the view.
C25_Placement ==
    view # NoView =>
        /\ \A c \in Held(view) :
              /\ supports_gpu(ct_db[c], product.database_key)
              /\ ct_db[c].source_name # None
                    => PlacedAsClaimed(objects[c], ct_db[c])
        /\ \A i \in 1..Len(ct_db) :
              ~supports_gpu(ct_db[i], product.database_key)
                 => (i \notin Held(view) /\ objects[i] = NoObject)

\* C25 witness: a view holds MaliB, placed at its alias hwB (multiplier 2),
\* MaliC, whose source name and second alias both have a slot and which is
\* placed at the first, and MaliI, which has no slot, while MaliU, which
\* does not support the product, is left out.
C25_Witness ==
    /\ view # NoView
    /\ \E b, c, i \in Held(view) :
          /\ objects[b].machine_name = "MaliB"
          /\ objects[b].source_name = "hwB"
          /\ objects[b].scale_multiplier = 2
          /\ objects[c].machine_name = "MaliC"
          /\ objects[c].source_name = "hwC"
          /\ objects[c].block_type = "MEMORY_SYSTEM"
          /\ objects[c].scale_multiplier = 4
          /\ objects[i].machine_name = "MaliI"
          /\ objects[i].block_type = None
    /\ \E u \in 1..Len(ct_db) : ct_db[u].machine_name = "MaliU"

\* ---------------------------------------------------------------------------
\* C26: the blocks of HardwareView.from_db (checked under SpecViews)

IsBankZero(block) == block.bank = 0

\* The layout blocks with bank 0, in layout order.
BankZeroBlocks == SelectSeq(HardwareLayout, IsBankZero)

\* The counter of the view whose source name is the name of the slot.
RefsAtSlot(slot) ==
    { c \in IndexCounters(view, "by_source_name") :
         /\ objects[c].source_name # None
         /\ Lower(objects[c].source_name) = Lower(slot.name)
         /\ get_by_source_name(view, slot.name) = c }

\* A slot of a bank 0 block has no counter in the view.
SlotWithoutCounter ==
    \E i \in 1..Len(BankZeroBlocks) :
        \E j \in 1..Len(BankZeroBlocks[i].counters) :
            RefsAtSlot(BankZeroBlocks[i].counters[j]) = {}

\* C26: HardwareView.from_db yields one block per layout block with bank 0,
\* in layout order, each holding the counters of the view for its slots in
\* slot order, looked up by source name; a slot without a counter in the
\* view aborts the build with a failed assertion instead of a view with a
\* gap.
C26_Blocks ==
    hw_view # NotCalled =>
        IF SlotWithoutCounter
        THEN ~hw_view.ok /\ hw_view.exc = "AssertionError"
        ELSE /\ hw_view.ok
             /\ Len(hw_view.value) = Len(BankZeroBlocks)
             /\ \A i \in 1..Len(BankZeroBlocks) :
                   /\ hw_view.value[i].btype = BankZeroBlocks[i].btype
                   /\ Len(hw_view.value[i].counters)
                         = Len(BankZeroBlocks[i].counters)
                   /\ \A j \in 1..Len(BankZeroBlocks[i].counters) :
                         hw_view.value[i].counters[j]
                            \in RefsAtSlot(BankZeroBlocks[i].counters[j])

\* C26 witness: a view of two blocks has been built from the layout of three
\* blocks, the third being a second bank of the second; the first block
\* holds the counters of hwA and hwB in that order.
C26_Witness ==
    /\ hw_view.ok
    /\ Len(HardwareLayout) = 3
    /\ Len(hw_view.value) = 2
    /\ Len(hw_view.value[1].counters) = 2
    /\ objects[hw_view.value[1].counters[1]].source_name = "hwA"
    /\ objects[hw_view.value[1].counters[2]].source_name = "hwB"
    /\ objects[hw_view.value[2].counters[1]].source_name = "hwC"

\* ------------------------------------------------------------------------
\* Claim about the two consistency errors of validate_stable_ids (SpecIds)
\* ------------------------------------------------------------------------

\* Two entries of db that both carry an ID share the ID and differ in
\* machine name.
SharedId(db) ==
    \E i, j \in 1..Len(db) :
        /\ db[i].stable_id # NoId
        /\ db[i].stable_id = db[j].stable_id
        /\ db[i].machine_name # db[j].machine_name

\* Two entries of db that both carry an ID share the machine name and
\* differ in ID.
SharedName(db) ==
    \E i, j \in 1..Len(db) :
        /\ db[i].stable_id # NoId /\ db[j].stable_id # NoId
        /\ db[i].machine_name = db[j].machine_name
        /\ db[i].stable_id # db[j].stable_id

\* The reasons that a run has printed.
Reported(run) == {run.printed[i] : i \in 1..Len(run.printed)}

\* C27: on every database, in every order of its entries, a run of
\* validate_stable_ids reports 'Stable ID reused for a different Machine
\* Name' when two entries with an ID share the ID and differ in machine
\* name, reports 'Machine Name alias using a different Stable ID' when two
\* entries with an ID share the machine name and differ in ID, counts each
\* report in the errors it returns, and reports neither when the IDs and
\* the machine names of the entries are one-to-one.
C27_Consistency ==
    ids_pc # "start" =>
        /\ SharedId(ids_db0) => (ids_run1.ok /\ IdReused \in Reported(ids_run1))
        /\ SharedName(ids_db0) =>
              (ids_run1.ok /\ NameOtherId \in Reported(ids_run1))
        /\ ids_run1.ok =>
              ids_run1.errors = Len(ids_run1.printed) + ids_run1.assigned
        /\ ConsistentIds(ids_db0) => ids_run1.printed = <<>>

\* C27 witness: validate_stable_ids has returned on a database of three
\* entries in which the last entry shares its ID with the second and its
\* machine name with the first, and has reported one error of each kind.
C27_Witness ==
    /\ ids_pc = "once"
    /\ Len(ids_db0) = 3
    /\ ids_db0[3].stable_id = ids_db0[2].stable_id
    /\ ids_db0[3].machine_name = ids_db0[1].machine_name
    /\ ids_db0[1].stable_id \notin {NoId, ids_db0[3].stable_id}
    /\ ids_db0[2].machine_name # ids_db0[3].machine_name
    /\ ids_run1.printed = <<IdReused, NameOtherId>>

\* ------------------------------------------------------------------------
\* Claim about the errors of validate_derived_equation_cardinality for any
\* equation (checked under SpecCard)
\* ------------------------------------------------------------------------

\* The cardinality domain of a counter of the view checked.
DomainOf(c) ==
    CASE objects[c].block_type = "SHADER_CORE" -> "SC"
      [] objects[c].block_type = "MEMORY_SYSTEM" -> "MEM"
      [] OTHER -> "GPU"

\* The scaling constant of a domain other than GPU.
ConstantOf(domain) ==
    IF domain = "SC" THEN "MALI_CONFIG_SHADER_CORE_COUNT"
    ELSE "MALI_CONFIG_L2_CACHE_COUNT"

\* The domains that the primitive counters of the resolved equation of the
\* counter c touch.
TouchedDomains(c) ==
    IF objects[c].equation_ast_resolved = NoEquation THEN {}
    ELSE { DomainOf(get_by_machine_name(view, n)) :
            n \in { m \in NameLeaves(objects[c].equation_ast_resolved) :
                      get_by_machine_name(view, m) # NoRef } }

\* The counters of the view that the check examines: derived, resolved and
\* not on the exception list.
Examined ==
    { c \in IndexCounters(view, "by_machine_name") :
        /\ is_derived(objects[c])
        /\ objects[c].equation_ast_resolved # NoEquation
        /\ objects[c].machine_name
              \notin {"MaliFragOverdraw", "MaliSCBusTileWrBPerPx"} }

\* The missing-scaling errors the claim expects for the counter c and a
\* domain.
ExpectedMissing(c, domain) ==
    IF /\ c \in Examined
       /\ domain # "GPU"
       /\ domain \in TouchedDomains(c)
       /\ Cardinality(TouchedDomains(c)) > 1
       /\ ConstantOf(domain)
             \notin NameLeaves(objects[c].equation_ast_resolved)
    THEN 1 ELSE 0

\* C28: when validate_derived_equation_cardinality returns, it has reported
\* for every examined counter one error for each domain other than GPU that
\* the counter's equation touches without that domain's scaling constant,
\* provided the equation touches more than one domain; it has reported
\* nothing for an equation of a single domain, nothing for the GPU domain
\* and nothing for a counter it does not examine; and it returns the number
\* of the errors reported.
C28_PerDomain ==
    (pc = "validated" /\ card_run.ok) =>
        /\ \A c \in IndexCounters(view, "by_machine_name") :
             /\ \A domain \in {"GPU", "MEM", "SC"} :
                   MissingFor(objects[c].machine_name, domain)
                       = ExpectedMissing(c, domain)
             /\ Cardinality(TouchedDomains(c)) <= 1 =>
                   MissingErrors(objects[c].machine_name) = 0
        /\ card_run.value.errors = BagCardinality(card_run.value.printed)

\* C28 witness: the check has returned for a database in which MaliQ is the
\* sum of a tiler counter and an unscaled shader core counter and MaliR
\* refers to MaliQ: one error for SC for each of the two, none for GPU.
C28_Witness ==
    /\ pc = "validated" /\ card_run.ok
    /\ \E i \in 1..Len(ct_db) :
         /\ ct_db[i].machine_name = "MaliQ"
         /\ ct_db[i].equation_ast
               = BinT("add", "+", NameT("MaliT"), NameT("MaliA"))
    /\ \E i \in 1..Len(ct_db) : ct_db[i].machine_name = "MaliR"
    /\ MissingFor("MaliQ", "SC") = 1 /\ MissingFor("MaliR", "SC") = 1
    /\ card_run.value.errors = 2

\* ------------------------------------------------------------------------
\* Claim about validate_name_uniqueness (checked under SpecNames)
\* ------------------------------------------------------------------------

\* The positions of the counters of the database checked that support the
\* GPU checked.
SupportedAt == {i \in 1..Len(names_db) : supports_gpu(names_db[i], names_gpu)}

\* Two supported counters have the same machine name, the same human name,
\* or the same group name and group human name.
SameNames(i, j) ==
    \/ names_db[i].machine_name = names_db[j].machine_name
    \/ names_db[i].human_name = names_db[j].human_name
    \/ /\ names_db[i].group_name = names_db[j].group_name
       /\ names_db[i].group_human_name = names_db[j].group_human_name

DuplicateNames == \E i, j \in SupportedAt : i # j /\ SameNames(i, j)

\* C29: when validate_name_uniqueness has returned for a GPU and two
\* counters that support the GPU have the same machine name, human name or
\* pair of group names, whether they are hardware or derived counters and
\* wherever they are in the database, it has reported at least one error.
C29_ReportsDuplicates ==
    (names_pc = "returned" /\ DuplicateNames) => names_errors >= 1

\* C29 witness: the check has returned no error for a database of two
\* derived counters of the GPU that have the same machine name.
C29_Witness ==
    /\ names_pc = "returned"
    /\ Len(names_db) = 2
    /\ SupportedAt = {1, 2}
    /\ is_derived(names_db[1]) /\ is_derived(names_db[2])
    /\ names_db[1].machine_name = names_db[2].machine_name
    /\ names_errors = 0

\* ------------------------------------------------------------------------
\* Claim about resolve_equations on a filtered view (checked under Spec)
\* ------------------------------------------------------------------------

\* The step is a call of resolve_equations on the filtered view.
FilteredResolveStep == resolved.flt = "no" /\ resolved'.flt # "no"

\* C30: a call of resolve_equations on the view that filter returned leaves
\* equation_ast_resolved and equation_ast_resolved_error of every counter
\* held by the source view as they were before the call.
C30_SourceUnchanged ==
    [][FilteredResolveStep =>
          \A c \in Held(view) :
              /\ objects'[c].equation_ast_resolved
                    = objects[c].equation_ast_resolved
              /\ objects'[c].equation_ast_resolved_error
                    = objects[c].equation_ast_resolved_error]_vars

\* C30 witness: resolve_equations has returned on the source view and then
\* on its filtered copy, and a counter of the source view that resolves in
\* the source view is left with no resolved equation and an error message.
C30_Witness ==
    /\ resolved.view = "returned" /\ resolved.flt = "returned"
    /\ resolved.last = "flt"
    /\ \E c \in Held(view) \cap Held(flt) :
         /\ objects[c].equation_ast_resolved = NoEquation
         /\ objects[c].equation_ast_resolved_error # NoMessage
         /\ resolve_equations(view, objects, lark_none_ok).objects[c].equation_ast_resolved # NoEquation
====
